---- MODULE Spec2Model ----
(***************************************************************************)
(* A model of the ingestion-and-enrichment pipeline of WeiBo_Latest:       *)
(*   - the atomic store      (backend/storage.py, write_json / read_json)  *)
(*   - the enrichment batch  (backend/scheduler.py, daily_llm_update)      *)
(*   - the hourly monitor    (spider/monitor_remote_hot_topics.py,         *)
(*                            spider/fetch_hot_topics.py)                  *)
(*   - the archive merges    (upsert_topic / update_topic over midnight)   *)
(*   - the rate-limit policy (spider/rate_limiter.py, RateLimitPolicy)     *)
(*   - the credential pool   (spider/cookie_pool.py, CookiePool)           *)
(*   - the risk model        (backend/risk_model.py)                       *)
(*   - a monitor tick next to an enrichment run on one day archive         *)
(*   - the threads that execute the jobs (start_scheduler, app.py)         *)
(* Each subsystem has its own specification (SpecStore, SpecLLM, SpecMon,  *)
(* SpecCatchUp, SpecRate, SpecPool, SpecRisk, SpecShared, ...) over the    *)
(* shared variables; the variables of the other subsystems stay at their   *)
(* initial values.                                                         *)
(***************************************************************************)
EXTENDS Integers, Sequences, FiniteSets, TLC

VARIABLES
    \* ---- atomic store: one target path, one writer, concurrent readers
    fsTarget,       \* content of the target file
    fsLeftover,     \* temporary files left behind (unlink refused)
    wjPc,           \* position of the writer inside write_json
    wjData,         \* the document being written
    wjPrev,         \* content of the target when write_json was entered
    wjAttempt,      \* loop variable `attempt` of write_json
    wjLastError,    \* last_error is not None
    wjTmp,          \* the attempt's temporary file exists
    wjSleeps,       \* the sleeps made so far by this call (tenths of a second)
    wjRefused,      \* number of attempts of this call that were refused
    wjDirect,       \* the direct overwrite of this call: "none", "ok", "refused"
    wjWrites,       \* completed calls of write_json
    rd,             \* the last read of the target: what it saw, and the call of
                    \* write_json that was in progress then
    \* ---- enrichment batch: daily_llm_update and its worker pool
    llmDisk,        \* the persisted day archive: name -> event
    llmArchive,     \* the in-memory archive object shared by the workers
    llmPc,          \* position of daily_llm_update
    llmForce,       \* the force argument of the run
    llmPending,     \* pending_names, in dispatch order
    llmNext,        \* index of the next name a pool thread will take
    llmWorkers,     \* pool thread -> its position in _process_event_llm
    archiveLock,    \* holder of ARCHIVE_LOCK (0: free)
    llmResults,     \* name -> status returned by its future ("none": not done)
    llmCollected,   \* names whose future the as_completed loop has handled
    llmChanged,     \* the local `changed` of daily_llm_update
    llmLog,         \* name -> the llm_status states written for it in this run
    llmClsRaised,   \* names whose classifier call raised in this run
    llmNoPosts,     \* names for which this run found no sample posts
    llmFinalSaves,  \* whole-archive saves made by the completion step of this run
    riskSnapshots,  \* regenerations of the risk-warning snapshot by this run
    llmRuns,        \* completed runs
    llmLoaded,      \* the archive as the current run loaded it
    \* ---- hourly monitor: ticks over the pending (date, hour) pairs
    monNow,         \* the wall clock, in minutes
    hourFiles,      \* (date, hour) -> the persisted hourly snapshot, or NoFile
    dailyDisk,      \* the persisted daily archive of Today: title -> record
    hotlistLatest,  \* latest.json of the hot list
    monPc,          \* position of the monitor inside process_hour
    monMode,        \* the caller: "tick", "loop" (process_pending_hours), "latest"
    monPending,     \* the pending pairs of the current tick, in loop order
    monIdx,         \* index of the pair being processed
    monTopics,      \* topics returned by fetch_topics_with_fallback
    monLocalUsed,   \* local_used returned by fetch_topics_with_fallback
    monCall,        \* what the latest process_hour call did
    monSkipped,     \* pairs of the last tick never processed because an
                    \* exception ended the tick
    monForced,      \* forced fetches of the current hour made so far
    \* ---- archive merges around midnight: upsert_topic and update_topic
    cuNow,          \* the wall clock, in minutes
    cuFiles,        \* the (date, hour) pairs whose hourly snapshot exists
    cuArchives,     \* date -> the persisted daily archive of that date
    cuLast,         \* the latest update_daily_archive call: its arguments, the
                    \* calendar day it ran on, the archive before and after
    \* ---- rate-limit policy: one RateLimitPolicy object and its callers
    rlJitter,       \* self.jitter, in thousandths
    rlNow,          \* time.monotonic(), in seconds
    rlAttempts,     \* self.attempts
    rlCooldownUntil,\* self.cooldown_until (None or a time)
    rlCooldownLevel,\* self.cooldown_level (None, "soft" or "hard")
    rlLastFailureTs,\* self.last_failure_ts (None or a time)
    rlSoftHits,     \* self._soft_hits: the times of the soft cooldowns
    rlFailures,     \* record_failure calls since __init__ or record_success
    rlLast,         \* the latest call of a method and what it returned
    rlLastCooldown, \* the latest _enter_cooldown: its level and the soft hits
                    \* it counted inside the window
    rlHistory,      \* the latest cooldowns entered: <<level, time>>, oldest first
    \* ---- credential pool: one CookiePool, its callers and the clock
    cpEntries,      \* self._entries: the last_bad of every entry, in pool order
    cpIndex,        \* self._index (None or a 0-based position)
    cpNow,          \* time.time(), in seconds
    cpLast,         \* the latest call of a method: its argument, what it returned
                    \* and the cursor and the entries it found
    \* ---- risk model: the functions of risk_model.py and their inputs
    rkDims,         \* the dims argument: dimension -> None (missing) or a value
    rkScore,        \* the score argument: None or a score in hundredths
    rkLast,         \* the latest call of a function and what it returned
    \* ---- a monitor tick on the day archive the enrichment batch works on
    shPc,           \* position of process_hour
    shData,         \* the daily_data process_hour has loaded (None: none)
    \* ---- settings of the process, read once when backend/config.py is imported
    llmWorkerSetting, \* LLM_ANALYSIS_WORKERS as set by the environment
    \* ---- the threads of the server process that execute a job
    jobExec,        \* thread -> what it executes: position and target date
    \* ---- write_json: an exception other than PermissionError
    wjError,        \* the exception that left the attempt ("none": none)
    wjUnlinked      \* what the finally block did with the temp file

storeVars == <<fsTarget, fsLeftover, wjPc, wjData, wjPrev, wjAttempt, wjLastError,
               wjTmp, wjSleeps, wjRefused, wjDirect, wjWrites, rd>>

llmVars == <<llmDisk, llmArchive, llmPc, llmForce, llmPending, llmNext, llmWorkers,
             archiveLock, llmResults, llmCollected, llmChanged, llmLog,
             llmClsRaised, llmNoPosts, llmFinalSaves, riskSnapshots, llmRuns, llmLoaded>>

monVars == <<monNow, hourFiles, dailyDisk, hotlistLatest, monPc, monMode, monPending,
             monIdx, monTopics, monLocalUsed, monCall, monSkipped,
             monForced>>

cuVars == <<cuNow, cuFiles, cuArchives, cuLast>>

rlVars == <<rlJitter, rlNow, rlAttempts, rlCooldownUntil, rlCooldownLevel,
            rlLastFailureTs, rlSoftHits, rlFailures, rlLast, rlLastCooldown,
            rlHistory>>

cpVars == <<cpEntries, cpIndex, cpNow, cpLast>>

rkVars == <<rkDims, rkScore, rkLast>>

shVars == <<shPc, shData>>

\* no action changes a setting
cfgVars == <<llmWorkerSetting>>

jobVars == <<jobExec>>

wjFaultVars == <<wjError, wjUnlinked>>

nonStoreFaultVars == <<llmVars, monVars, cuVars, rlVars, cpVars, rkVars, shVars,
    cfgVars, jobVars>>

nonStoreVars == <<llmVars, monVars, cuVars, rlVars, cpVars, rkVars, shVars,
    cfgVars, jobVars,
    wjFaultVars>>
nonLlmVars == <<storeVars, monVars, cuVars, rlVars, cpVars, rkVars, shVars,
    cfgVars, jobVars,
    wjFaultVars>>
nonMonVars == <<storeVars, llmVars, cuVars, rlVars, cpVars, rkVars, shVars,
    cfgVars, jobVars,
    wjFaultVars>>
nonCuVars == <<storeVars, llmVars, monVars, rlVars, cpVars, rkVars, shVars,
    cfgVars, jobVars,
    wjFaultVars>>
nonRlVars == <<storeVars, llmVars, monVars, cuVars, cpVars, rkVars, shVars,
    cfgVars, jobVars,
    wjFaultVars>>
nonCpVars == <<storeVars, llmVars, monVars, cuVars, rlVars, rkVars, shVars,
    cfgVars, jobVars,
    wjFaultVars>>
nonRkVars == <<storeVars, llmVars, monVars, cuVars, rlVars, cpVars, shVars,
    cfgVars, jobVars,
    wjFaultVars>>

\* the variables of a run of the enrichment batch, without the archive on disk
llmRunVars ==
    <<llmArchive, llmPc, llmForce, llmPending, llmNext, llmWorkers, archiveLock,
      llmResults, llmCollected, llmChanged, llmLog, llmClsRaised, llmNoPosts,
      llmFinalSaves, riskSnapshots, llmRuns, llmLoaded>>

nonJobVars ==
    <<storeVars, llmVars, monVars, cuVars, rlVars, cpVars, rkVars, shVars, cfgVars,
      wjFaultVars>>

nonShVars ==
    <<storeVars, llmRunVars, monVars, cuVars, rlVars, cpVars, rkVars, cfgVars,
      jobVars, wjFaultVars>>

vars ==
    <<storeVars, llmVars, monVars, cuVars, rlVars, cpVars, rkVars, shVars, cfgVars,
      jobVars, wjFaultVars>>

(***************************************************************************)
(* Atomic store: backend/storage.py                                        *)
(***************************************************************************)

\* Bounds of the store model.
NumDocs == 2
MaxWrites == 2

\* for attempt in range(8)
RenameAttempts == 8
\* time.sleep(0.2 * (2**attempt)), in tenths of a second
SleepBase == 2

Docs == 1..NumDocs

Missing == [kind |-> "missing", doc |-> 0]
Full(d) == [kind |-> "full", doc |-> d]
\* A file opened with "w" is truncated first and filled afterwards.
Partial(d) == [kind |-> "partial", doc |-> d]

RECURSIVE Pow2(_)
Pow2(n) == IF n = 0 THEN 1 ELSE 2 * Pow2(n - 1)

\* 0.2 * (2**attempt) seconds, in tenths of a second
SleepFor(attempt) == SleepBase * Pow2(attempt)

\* A rename that copies into the target instead of replacing it at once.
RenamedTorn(d) == Partial(d)

\* tmp_path.replace(path): the rename puts the whole temp file in place at once.
Renamed(d) == Full(d)

\* read_json(path, default): a missing file or malformed content gives default (0).
ReadResult(content) ==
    IF content.kind = "full" THEN content.doc ELSE 0

NoRead == [seen |-> Missing, result |-> 0, during |-> "none",
           prev |-> Missing, data |-> 0]

\* The phase of write_json a position belongs to: the temp-file-plus-rename loop,
\* the direct overwrite, or none (no call in progress).
Phase(pc) ==
    CASE pc \in {"tmp", "replace", "sleep", "cleanup", "return_cleanup",
                 "finally"} -> "rename"
      [] pc \in {"direct", "direct_write"} -> "direct"
      [] OTHER -> "idle"

InitStoreVars ==
    /\ fsTarget \in {Missing} \cup {Full(d) : d \in Docs}
    /\ fsLeftover = 0
    /\ wjPc = "idle"
    /\ wjData = 0
    /\ wjPrev = fsTarget
    /\ wjAttempt = 0
    /\ wjLastError = FALSE
    /\ wjTmp = FALSE
    /\ wjSleeps = <<>>
    /\ wjRefused = 0
    /\ wjDirect = "none"
    /\ wjWrites = 0
    /\ rd = NoRead

\* write_json(path, data): entry; last_error = None; the loop starts at attempt 0.
WriteJsonCall ==
    /\ wjPc = "idle"
    /\ wjWrites < MaxWrites
    /\ \E d \in Docs : wjData' = d
    /\ wjPrev' = fsTarget
    /\ wjAttempt' = 0
    /\ wjLastError' = FALSE
    /\ wjTmp' = FALSE
    /\ wjSleeps' = <<>>
    /\ wjRefused' = 0
    /\ wjDirect' = "none"
    /\ wjPc' = "tmp"
    /\ UNCHANGED nonStoreVars
    /\ UNCHANGED <<fsTarget, fsLeftover, wjWrites, rd>>

\* with tmp_path.open("w") ...: json.dump(...); the temp file is complete, or the
\* open is refused (PermissionError).
WriteJsonTmp ==
    /\ wjPc = "tmp"
    /\ \E ok \in BOOLEAN :
          IF ok
          THEN /\ wjTmp' = TRUE
               /\ wjPc' = "replace"
               /\ UNCHANGED <<wjLastError, wjRefused>>
          ELSE /\ wjTmp' = FALSE
               /\ wjLastError' = TRUE
               /\ wjRefused' = wjRefused + 1
               /\ wjPc' = "sleep"
    /\ UNCHANGED nonStoreVars
    /\ UNCHANGED <<fsTarget, fsLeftover, wjData, wjPrev, wjAttempt, wjSleeps,
                   wjDirect, wjWrites, rd>>

\* tmp_path.replace(path): the atomic rename, or PermissionError
WriteJsonReplace ==
    /\ wjPc = "replace"
    /\ \E ok \in BOOLEAN :
          IF ok
          THEN /\ fsTarget' = Renamed(wjData)
               /\ wjTmp' = FALSE
               /\ wjPc' = "return_cleanup"
               /\ UNCHANGED <<wjLastError, wjRefused>>
          ELSE /\ wjLastError' = TRUE
               /\ wjRefused' = wjRefused + 1
               /\ wjPc' = "sleep"
               /\ UNCHANGED <<fsTarget, wjTmp>>
    /\ UNCHANGED nonStoreVars
    /\ UNCHANGED <<fsLeftover, wjData, wjPrev, wjAttempt, wjSleeps, wjDirect,
                   wjWrites, rd>>

\* except PermissionError: time.sleep(0.2 * (2**attempt))
WriteJsonSleep ==
    /\ wjPc = "sleep"
    /\ wjSleeps' = Append(wjSleeps, SleepFor(wjAttempt))
    /\ wjPc' = "cleanup"
    /\ UNCHANGED nonStoreVars
    /\ UNCHANGED <<fsTarget, fsLeftover, wjData, wjPrev, wjAttempt, wjLastError,
                   wjTmp, wjRefused, wjDirect, wjWrites, rd>>

\* A loop that runs one attempt too many.
AfterAttemptOneMore(attempt) ==
    IF attempt < RenameAttempts THEN "tmp" ELSE "direct"

\* The position after the finally block of a refused attempt: the next attempt,
\* or the direct overwrite once range(8) is exhausted.
AfterAttempt(attempt) ==
    IF attempt + 1 < RenameAttempts THEN "tmp" ELSE "direct"

\* finally: tmp_path.unlink(missing_ok=True), PermissionError ignored
WriteJsonCleanup ==
    /\ wjPc \in {"cleanup", "return_cleanup"}
    /\ \E unlinked \in BOOLEAN :
          /\ wjTmp' = FALSE
          /\ fsLeftover' = IF wjTmp /\ ~unlinked THEN fsLeftover + 1 ELSE fsLeftover
    /\ IF wjPc = "return_cleanup"
       THEN /\ wjPc' = "returned"
            /\ UNCHANGED wjAttempt
       ELSE /\ wjPc' = AfterAttempt(wjAttempt)
            /\ wjAttempt' = wjAttempt + 1
    /\ UNCHANGED nonStoreVars
    /\ UNCHANGED <<fsTarget, wjData, wjPrev, wjLastError, wjSleeps, wjRefused,
                   wjDirect, wjWrites, rd>>

\* with path.open("w") ...: the open truncates the target, or is refused
\* (except PermissionError: pass; if last_error: raise last_error).
WriteJsonDirectOpen ==
    /\ wjPc = "direct"
    /\ \E ok \in BOOLEAN :
          IF ok
          THEN /\ fsTarget' = Partial(wjData)
               /\ wjDirect' = "ok"
               /\ wjPc' = "direct_write"
          ELSE /\ wjDirect' = "refused"
               /\ wjPc' = IF wjLastError THEN "raised" ELSE "returned"
               /\ UNCHANGED fsTarget
    /\ UNCHANGED nonStoreVars
    /\ UNCHANGED <<fsLeftover, wjData, wjPrev, wjAttempt, wjLastError, wjTmp,
                   wjSleeps, wjRefused, wjWrites, rd>>

\* json.dump(data, fp); fp.write("\n"); return
WriteJsonDirectWrite ==
    /\ wjPc = "direct_write"
    /\ fsTarget' = Full(wjData)
    /\ wjPc' = "returned"
    /\ UNCHANGED nonStoreVars
    /\ UNCHANGED <<fsLeftover, wjData, wjPrev, wjAttempt, wjLastError, wjTmp,
                   wjSleeps, wjRefused, wjDirect, wjWrites, rd>>

\* The caller goes on after the return or the exception.
WriteJsonDone ==
    /\ wjPc \in {"returned", "raised"}
    /\ wjPc' = "idle"
    /\ wjWrites' = wjWrites + 1
    /\ UNCHANGED nonStoreVars
    /\ UNCHANGED <<fsTarget, fsLeftover, wjData, wjPrev, wjAttempt, wjLastError,
                   wjTmp, wjSleeps, wjRefused, wjDirect, rd>>

\* A concurrent reader opens and loads the target (read_json).
ReadJson ==
    /\ rd' = [seen |-> fsTarget, result |-> ReadResult(fsTarget),
              during |-> Phase(wjPc), prev |-> wjPrev, data |-> wjData]
    /\ UNCHANGED nonStoreVars
    /\ UNCHANGED <<fsTarget, fsLeftover, wjPc, wjData, wjPrev, wjAttempt,
                   wjLastError, wjTmp, wjSleeps, wjRefused, wjDirect, wjWrites>>


(***************************************************************************)
(* Atomic store: exceptions of write_json other than PermissionError       *)
(***************************************************************************)

\* json.dump raises TypeError for a document it cannot serialize; open, write
\* and replace raise other OSErrors (disk full, target is a directory, ...).
OtherErrors == {"TypeError", "OSError"}

\* A clause that catches every exception.
CaughtAny(error) == TRUE

\* except PermissionError as exc: the exceptions the clause of the loop catches
Caught(error) == error = "PermissionError"

InitWjFaultVars ==
    /\ wjError = "none"
    /\ wjUnlinked = "none"

\* with tmp_path.open("w") ...: json.dump(...) or the open raises an exception
\* other than PermissionError; json.dump runs on the opened temp file, which
\* then exists with part of the document.
WriteJsonTmpRaises ==
    /\ wjPc = "tmp"
    /\ \E error \in OtherErrors : \E opened \in BOOLEAN :
          /\ error = "TypeError" => opened
          /\ wjError' = error
          /\ wjTmp' = opened
          /\ IF Caught(error)
             THEN /\ wjLastError' = TRUE
                  /\ wjRefused' = wjRefused + 1
                  /\ wjPc' = "sleep"
             ELSE /\ wjPc' = "finally"
                  /\ UNCHANGED <<wjLastError, wjRefused>>
    /\ UNCHANGED nonStoreFaultVars
    /\ UNCHANGED <<fsTarget, fsLeftover, wjData, wjPrev, wjAttempt, wjSleeps,
                   wjDirect, wjWrites, rd, wjUnlinked>>

\* tmp_path.replace(path) raises an OSError other than PermissionError: the
\* target is not replaced.
WriteJsonReplaceRaises ==
    /\ wjPc = "replace"
    /\ wjError' = "OSError"
    /\ IF Caught("OSError")
       THEN /\ wjLastError' = TRUE
            /\ wjRefused' = wjRefused + 1
            /\ wjPc' = "sleep"
       ELSE /\ wjPc' = "finally"
            /\ UNCHANGED <<wjLastError, wjRefused>>
    /\ UNCHANGED nonStoreFaultVars
    /\ UNCHANGED <<fsTarget, fsLeftover, wjData, wjPrev, wjAttempt, wjTmp, wjSleeps,
                   wjDirect, wjWrites, rd, wjUnlinked>>

\* finally: tmp_path.unlink(missing_ok=True), PermissionError ignored; the
\* exception of the attempt then leaves write_json.
WriteJsonFinally ==
    /\ wjPc = "finally"
    /\ \E unlinked \in BOOLEAN :
          /\ wjUnlinked' = IF ~wjTmp THEN "no_file"
                           ELSE IF unlinked THEN "removed" ELSE "refused"
          /\ fsLeftover' = IF wjTmp /\ ~unlinked THEN fsLeftover + 1 ELSE fsLeftover
    /\ wjTmp' = FALSE
    /\ wjPc' = "propagated"
    /\ UNCHANGED nonStoreFaultVars
    /\ UNCHANGED <<fsTarget, wjData, wjPrev, wjAttempt, wjLastError, wjSleeps,
                   wjRefused, wjDirect, wjWrites, rd, wjError>>

\* The caller goes on after the exception.
WriteJsonPropagates ==
    /\ wjPc = "propagated"
    /\ wjPc' = "idle"
    /\ wjWrites' = wjWrites + 1
    /\ wjError' = "none"
    /\ wjUnlinked' = "none"
    /\ UNCHANGED nonStoreFaultVars
    /\ UNCHANGED <<fsTarget, fsLeftover, wjData, wjPrev, wjAttempt, wjLastError,
                   wjTmp, wjSleeps, wjRefused, wjDirect, rd>>
(***************************************************************************)
(* Enrichment batch: backend/scheduler.py                                  *)
(***************************************************************************)

\* Bounds of the enrichment model: the two settings are configurable
\* (LLM_ANALYSIS_TOP_K, LLM_ANALYSIS_WORKERS) and kept small here; MaxRuns
\* bounds the runs of SpecLLM, MaxDayRuns the runs of one day of SpecLLMDay.
LLM_ANALYSIS_TOP_K == 2
LLM_ANALYSIS_WORKERS == 2
MaxRuns == 1
MaxDayRuns == 2

\* The keys of the day archive, in the order of the archive file.
Names == <<"a", "b", "c">>
NameSet == {Names[i] : i \in 1..Len(Names)}
\* Heat readings of an event.
HotReadings == {1, 2}

Workers == 1..LLM_ANALYSIS_WORKERS

TerminalStates == {"succeeded", "skipped", "error"}
LlmStates == {"none", "processing"} \cup TerminalStates

\* An event of the archive: its display title ("" when absent), its heat series
\* (ascending time stamps), llm_status.state, last_content_update_date (relative
\* to today's date: "none", "old", "today") and the classification and risk
\* fields ("none", "prior": written by an earlier run, "run": written by this run).
Event(title, hots, state, lcud, result) ==
    [title |-> title, hot_values |-> hots, state |-> state,
     last_content_update_date |-> lcud, result |-> result]

\* The status, date and result fields a topic can have before a run.
PriorFields ==
    { <<"none", "none", "none">>,
      <<"succeeded", "today", "prior">>,
      <<"processing", "none", "none">> }

TitleChoices(n) == IF n = "c" THEN {"c", "a"} ELSE IF n = "a" THEN {""} ELSE {n}

EventsOf(n) ==
    { Event(t, <<h>>, p[1], p[2], p[3]) :
        t \in TitleChoices(n), h \in HotReadings, p \in PriorFields }

\* The archives a run can find on disk.
InitArchives ==
    { arch \in [NameSet -> UNION {EventsOf(n) : n \in NameSet}] :
        \A n \in NameSet : arch[n] \in EventsOf(n) }

\* _canonical_topic_name: the display title when there is one, else the raw key
CanonicalTopicName(raw, e) == IF e.title # "" THEN e.title ELSE raw

\* _extract_hot_score: the reading with the latest stamp, 0.0 without readings
ExtractHotScore(e) ==
    IF e.hot_values # <<>> THEN e.hot_values[Len(e.hot_values)] ELSE 0

\* A selection that never looks at the force argument.
IsCandidateNeverForced(e, force) == e.last_content_update_date # "today"

\* daily_llm_update, line 417: a topic refreshed today is skipped unless forced
IsCandidate(e, force) == force \/ e.last_content_update_date # "today"

\* A de-duplication that keeps the first key of every canonical name.
RECURSIVE DedupCandidatesKeepFirst(_, _, _, _)
DedupCandidatesKeepFirst(arch, force, i, cands) ==
    IF i > Len(Names) THEN cands
    ELSE LET raw == Names[i]
             e == arch[raw]
             entry == [canonical |-> CanonicalTopicName(raw, e),
                       archive_name |-> raw, hot |-> ExtractHotScore(e)]
             same == {j \in 1..Len(cands) : cands[j].canonical = entry.canonical}
         IN  IF IsCandidate(e, force) /\ same = {}
             THEN DedupCandidatesKeepFirst(arch, force, i + 1, Append(cands, entry))
             ELSE DedupCandidatesKeepFirst(arch, force, i + 1, cands)

\* daily_llm_update, lines 415-427: dedup_candidates, in insertion order
RECURSIVE DedupCandidates(_, _, _, _)
DedupCandidates(arch, force, i, cands) ==
    IF i > Len(Names) THEN cands
    ELSE LET raw == Names[i]
             e == arch[raw]
             entry == [canonical |-> CanonicalTopicName(raw, e),
                       archive_name |-> raw, hot |-> ExtractHotScore(e)]
             same == {j \in 1..Len(cands) : cands[j].canonical = entry.canonical}
         IN  IF ~IsCandidate(e, force)
             THEN DedupCandidates(arch, force, i + 1, cands)
             ELSE IF same = {}
             THEN DedupCandidates(arch, force, i + 1, Append(cands, entry))
             ELSE LET j == CHOOSE j \in same : TRUE
                  IN  IF entry.hot > cands[j].hot
                      THEN DedupCandidates(arch, force, i + 1,
                                           [cands EXCEPT ![j] = entry])
                      ELSE DedupCandidates(arch, force, i + 1, cands)

\* sorted(..., key=hot, reverse=True): descending, equal keys keep their order
RECURSIVE InsertByHot(_, _)
InsertByHot(seq, x) ==
    IF seq = <<>> THEN <<x>>
    ELSE IF Head(seq).hot >= x.hot
         THEN <<Head(seq)>> \o InsertByHot(Tail(seq), x)
         ELSE <<x>> \o seq

RECURSIVE SortByHotDesc(_)
SortByHotDesc(seq) ==
    IF seq = <<>> THEN <<>>
    ELSE InsertByHot(SortByHotDesc(SubSeq(seq, 1, Len(seq) - 1)), seq[Len(seq)])

Min(x, y) == IF x <= y THEN x ELSE y
Max(x, y) == IF x >= y THEN x ELSE y

\* A selection that keeps the first K candidates without ranking them.
PendingNamesUnranked(arch, force) ==
    LET cands == DedupCandidates(arch, force, 1, <<>>)
        kept == SubSeq(cands, 1, Min(LLM_ANALYSIS_TOP_K, Len(cands)))
    IN  [i \in 1..Len(kept) |-> kept[i].archive_name]

\* daily_llm_update, lines 429-437: pending_names
PendingNames(arch, force) ==
    LET ranked == SortByHotDesc(DedupCandidates(arch, force, 1, <<>>))
        kept == SubSeq(ranked, 1, Min(LLM_ANALYSIS_TOP_K, Len(ranked)))
    IN  [i \in 1..Len(kept) |-> kept[i].archive_name]

\* A pool with one thread per submitted call, whatever the setting.
WorkerCountPerCall(pending) == Max(1, Len(pending))

\* worker_count = max(1, min(LLM_ANALYSIS_WORKERS, len(pending_names)))
WorkerCount(pending) == Max(1, Min(llmWorkerSetting, Len(pending)))

Dispatched == {llmPending[i] : i \in 1..Len(llmPending)}

IdleWorker == [pc |-> "idle", name |-> "", stage |-> "none"]

\* The archives of a day on which no topic has been enriched yet.
InitDayArchives == {arch \in InitArchives : \A n \in NameSet : arch[n].state = "none"}

InitLlmVars ==
    /\ llmDisk \in InitArchives
    /\ llmArchive = llmDisk
    /\ llmPc = "idle"
    /\ llmForce = FALSE
    /\ llmPending = <<>>
    /\ llmNext = 1
    /\ llmWorkers = [w \in Workers |-> IdleWorker]
    /\ archiveLock = 0
    /\ llmResults = [n \in NameSet |-> "none"]
    /\ llmCollected = {}
    /\ llmChanged = FALSE
    /\ llmLog = [n \in NameSet |-> <<>>]
    /\ llmClsRaised = {}
    /\ llmNoPosts = {}
    /\ llmFinalSaves = 0
    /\ riskSnapshots = 0
    /\ llmRuns = 0
    /\ llmLoaded = llmDisk

\* daily_llm_update(force=...), lines 399-437: load the archive, select and rank
\* the candidates, keep the top K. Without pending names the pool is skipped.
DailyLlmUpdate ==
    /\ llmPc = "idle"
    /\ llmRuns < MaxRuns
    /\ \E force \in BOOLEAN :
          /\ llmForce' = force
          /\ llmPending' = PendingNames(llmDisk, force)
          /\ llmPc' = IF PendingNames(llmDisk, force) = <<>> THEN "completion"
                      ELSE "pool"
    /\ llmArchive' = llmDisk
    /\ llmNext' = 1
    /\ llmResults' = [n \in NameSet |-> "none"]
    /\ llmCollected' = {}
    /\ llmChanged' = FALSE
    /\ llmLog' = [n \in NameSet |-> <<>>]
    /\ llmClsRaised' = {}
    /\ llmNoPosts' = {}
    /\ llmFinalSaves' = 0
    /\ riskSnapshots' = 0
    /\ llmLoaded' = llmDisk
    /\ UNCHANGED <<llmDisk, llmWorkers, archiveLock, llmRuns>>
    /\ UNCHANGED nonLlmVars

\* A later run of the same day that is not forced: the cron job after
\* scripts/run_llm_for_dates.py, or the script once more. Lines 399-437 as in
\* DailyLlmUpdate, with force = False.
DailyLlmUpdateAgain ==
    /\ llmPc = "idle"
    /\ llmRuns >= 1
    /\ llmRuns < MaxDayRuns
    /\ llmForce' = FALSE
    /\ llmPending' = PendingNames(llmDisk, FALSE)
    /\ llmPc' = IF PendingNames(llmDisk, FALSE) = <<>> THEN "completion" ELSE "pool"
    /\ llmArchive' = llmDisk
    /\ llmLoaded' = llmDisk
    /\ llmNext' = 1
    /\ llmResults' = [n \in NameSet |-> "none"]
    /\ llmCollected' = {}
    /\ llmChanged' = FALSE
    /\ llmLog' = [n \in NameSet |-> <<>>]
    /\ llmClsRaised' = {}
    /\ llmNoPosts' = {}
    /\ llmFinalSaves' = 0
    /\ riskSnapshots' = 0
    /\ UNCHANGED <<llmDisk, llmWorkers, archiveLock, llmRuns>>
    /\ UNCHANGED nonLlmVars

\* A worker that skips the processing status and calls the classifier at once.
AfterLoadNoProcessing(hasPosts) ==
    IF hasPosts THEN [pc |-> "call", stage |-> "none"]
    ELSE [pc |-> "lock", stage |-> "skipped"]

\* _process_event_llm, lines 360-372: without posts the status written is
\* skipped; with posts it is processing, and the classifier is called after it.
AfterLoad(hasPosts) ==
    IF hasPosts THEN [pc |-> "lock", stage |-> "processing"]
    ELSE [pc |-> "lock", stage |-> "skipped"]

\* A pool thread takes the next submitted call of _process_event_llm (the pool
\* has worker_count threads, and which idle thread takes the call makes no
\* difference: the lowest one does). event = archive.get(name) is never None for
\* a dispatched name; posts = _load_posts_for_event(date_str, event) finds sample
\* posts or none.
WorkerTake(w) ==
    /\ llmPc = "pool"
    /\ w <= WorkerCount(llmPending)
    /\ llmWorkers[w].pc = "idle"
    /\ \A v \in Workers : v < w => llmWorkers[v].pc # "idle"
    /\ llmNext <= Len(llmPending)
    /\ \E hasPosts \in BOOLEAN :
          /\ llmWorkers' = [llmWorkers EXCEPT
                              ![w] = [pc |-> AfterLoad(hasPosts).pc,
                                      name |-> llmPending[llmNext],
                                      stage |-> AfterLoad(hasPosts).stage]]
          /\ llmNoPosts' = IF hasPosts THEN llmNoPosts
                           ELSE llmNoPosts \cup {llmPending[llmNext]}
    /\ llmNext' = llmNext + 1
    /\ UNCHANGED <<llmDisk, llmArchive, llmPc, llmForce, llmPending, archiveLock,
                   llmResults, llmCollected, llmChanged, llmLog, llmClsRaised,
                   llmFinalSaves, riskSnapshots, llmRuns, llmLoaded>>
    /\ UNCHANGED nonLlmVars

\* A mutator that stamps the refresh date whatever status it writes.
MutatedStampsDate(e, stage) ==
    IF stage = "succeeded"
    THEN [e EXCEPT !.state = "succeeded", !.last_content_update_date = "today",
                   !.result = "run"]
    ELSE [e EXCEPT !.state = stage, !.last_content_update_date = "today"]

\* The mutators of _set_llm_status (event["llm_status"] = payload) and of
\* _persist_llm_success (classification, risk fields, last_content_update_date =
\* today, llm_status = succeeded).
Mutated(e, stage) ==
    IF stage = "succeeded"
    THEN [e EXCEPT !.state = "succeeded", !.last_content_update_date = "today",
                   !.result = "run"]
    ELSE [e EXCEPT !.state = stage]

\* A mutation made without taking ARCHIVE_LOCK.
WorkerMutateUnlocked(w) ==
    /\ llmWorkers[w].pc = "lock"
    /\ llmArchive' = [llmArchive EXCEPT
                        ![llmWorkers[w].name] = Mutated(@, llmWorkers[w].stage)]
    /\ llmLog' = [llmLog EXCEPT
                    ![llmWorkers[w].name] = Append(@, llmWorkers[w].stage)]
    /\ llmWorkers' = [llmWorkers EXCEPT ![w].pc = "idle"]
    /\ UNCHANGED <<llmDisk, llmPc, llmForce, llmPending, llmNext, llmResults,
                   llmCollected, llmChanged, llmClsRaised, llmNoPosts, llmFinalSaves,
                   riskSnapshots, llmRuns, llmLoaded, archiveLock>>
    /\ UNCHANGED nonLlmVars

\* _mutate_event, lines 261-264: with ARCHIVE_LOCK: mutator(event)
WorkerMutate(w) ==
    /\ llmWorkers[w].pc = "lock"
    /\ archiveLock = 0
    /\ archiveLock' = w
    /\ llmArchive' = [llmArchive EXCEPT
                        ![llmWorkers[w].name] = Mutated(@, llmWorkers[w].stage)]
    /\ llmLog' = [llmLog EXCEPT
                    ![llmWorkers[w].name] = Append(@, llmWorkers[w].stage)]
    /\ llmWorkers' = [llmWorkers EXCEPT ![w].pc = "save"]
    /\ UNCHANGED <<llmDisk, llmPc, llmForce, llmPending, llmNext, llmResults,
                   llmCollected, llmChanged, llmClsRaised, llmNoPosts, llmFinalSaves,
                   riskSnapshots, llmRuns, llmLoaded>>
    /\ UNCHANGED nonLlmVars

\* The value _process_event_llm returns after its last status write.
ReturnStatus(stage) ==
    CASE stage = "skipped" -> "no_posts"
      [] stage = "error" -> "error"
      [] stage = "succeeded" -> "refreshed"
      [] OTHER -> "none"

\* _mutate_event, line 265: save_daily_archive(date_str, archive), then the lock
\* is released; after processing the classifier is called, after any other status
\* the call returns.
WorkerSave(w) ==
    /\ llmWorkers[w].pc = "save"
    /\ archiveLock = w
    /\ llmDisk' = llmArchive
    /\ archiveLock' = 0
    /\ IF llmWorkers[w].stage = "processing"
       THEN /\ llmWorkers' = [llmWorkers EXCEPT ![w].pc = "call"]
            /\ UNCHANGED llmResults
       ELSE /\ llmWorkers' = [llmWorkers EXCEPT ![w] = IdleWorker]
            /\ llmResults' = [llmResults EXCEPT
                                ![llmWorkers[w].name] =
                                    ReturnStatus(llmWorkers[w].stage)]
    /\ UNCHANGED <<llmArchive, llmPc, llmForce, llmPending, llmNext, llmCollected,
                   llmChanged, llmLog, llmClsRaised, llmNoPosts, llmFinalSaves,
                   riskSnapshots,
                   llmRuns, llmLoaded>>
    /\ UNCHANGED nonLlmVars

\* A worker without the except clause: the exception ends the call, the status
\* stays as it is and the future holds the exception.
OnClassifierErrorUncaught(w) ==
    /\ llmWorkers' = [llmWorkers EXCEPT ![w] = IdleWorker]
    /\ llmResults' = [llmResults EXCEPT ![llmWorkers[w].name] = "crashed"]

\* _process_event_llm, lines 375-385: except Exception: the status error is
\* written and {"status": "error"} returned.
OnClassifierError(w) ==
    /\ llmWorkers' = [llmWorkers EXCEPT ![w].pc = "lock", ![w].stage = "error"]
    /\ UNCHANGED llmResults

\* llm_res = call_openai(posts, name): it returns a result or raises.
WorkerCall(w) ==
    /\ llmWorkers[w].pc = "call"
    /\ \E raised \in BOOLEAN :
          IF raised
          THEN /\ OnClassifierError(w)
               /\ llmClsRaised' = llmClsRaised \cup {llmWorkers[w].name}
          ELSE /\ llmWorkers' = [llmWorkers EXCEPT
                                   ![w].pc = "lock", ![w].stage = "succeeded"]
               /\ UNCHANGED <<llmResults, llmClsRaised>>
    /\ UNCHANGED <<llmDisk, llmArchive, llmPc, llmForce, llmPending, llmNext,
                   archiveLock, llmCollected, llmChanged, llmLog, llmNoPosts,
                   llmFinalSaves, riskSnapshots, llmRuns, llmLoaded>>
    /\ UNCHANGED nonLlmVars

\* daily_llm_update, lines 454-469: the as_completed loop handles one finished
\* future; a future holding an exception is logged and counted.
CollectResult(n) ==
    /\ llmPc = "pool"
    /\ n \in Dispatched
    /\ n \notin llmCollected
    /\ llmResults[n] # "none"
    /\ llmCollected' = llmCollected \cup {n}
    /\ llmChanged' = (llmChanged \/ llmResults[n] = "refreshed")
    /\ UNCHANGED <<llmDisk, llmArchive, llmPc, llmForce, llmPending, llmNext,
                   llmWorkers, archiveLock, llmResults, llmLog, llmClsRaised, llmNoPosts,
                   llmFinalSaves, riskSnapshots, llmRuns, llmLoaded>>
    /\ UNCHANGED nonLlmVars

\* The with-block ends once every future is done and handled.
PoolShutdown ==
    /\ llmPc = "pool"
    /\ llmCollected = Dispatched
    /\ llmPc' = "completion"
    /\ UNCHANGED <<llmDisk, llmArchive, llmForce, llmPending, llmNext, llmWorkers,
                   archiveLock, llmResults, llmCollected, llmChanged, llmLog,
                   llmClsRaised, llmNoPosts, llmFinalSaves, riskSnapshots, llmRuns,
                   llmLoaded>>
    /\ UNCHANGED nonLlmVars

\* A completion step that does nothing when no topic was refreshed.
CompletionOnlyWhenChanged ==
    /\ llmPc = "completion"
    /\ IF llmChanged
       THEN /\ llmDisk' = llmArchive
            /\ llmFinalSaves' = llmFinalSaves + 1
            /\ riskSnapshots' = riskSnapshots + 1
       ELSE UNCHANGED <<llmDisk, llmFinalSaves, riskSnapshots>>
    /\ llmPc' = "returned"
    /\ UNCHANGED <<llmArchive, llmForce, llmPending, llmNext, llmWorkers,
                   archiveLock, llmResults, llmCollected, llmChanged, llmLog,
                   llmClsRaised, llmNoPosts, llmRuns, llmLoaded>>
    /\ UNCHANGED nonLlmVars

\* daily_llm_update, lines 478-505: if changed, the archive is saved once more;
\* the risk-warning snapshot is regenerated either way.
Completion ==
    /\ llmPc = "completion"
    /\ IF llmChanged
       THEN /\ llmDisk' = llmArchive
            /\ llmFinalSaves' = llmFinalSaves + 1
       ELSE UNCHANGED <<llmDisk, llmFinalSaves>>
    /\ riskSnapshots' = riskSnapshots + 1
    /\ llmPc' = "returned"
    /\ UNCHANGED <<llmArchive, llmForce, llmPending, llmNext, llmWorkers,
                   archiveLock, llmResults, llmCollected, llmChanged, llmLog,
                   llmClsRaised, llmNoPosts, llmRuns, llmLoaded>>
    /\ UNCHANGED nonLlmVars

\* daily_llm_update returns: its locals are gone, and the scheduler, the admin
\* endpoint or the script is free to start the next run.
DailyLlmUpdateReturn ==
    /\ llmPc = "returned"
    /\ llmPc' = "idle"
    /\ llmRuns' = llmRuns + 1
    /\ llmForce' = FALSE
    /\ llmPending' = <<>>
    /\ llmNext' = 1
    /\ llmResults' = [n \in NameSet |-> "none"]
    /\ llmCollected' = {}
    /\ llmChanged' = FALSE
    /\ llmLog' = [n \in NameSet |-> <<>>]
    /\ llmClsRaised' = {}
    /\ llmNoPosts' = {}
    /\ llmFinalSaves' = 0
    /\ riskSnapshots' = 0
    /\ llmArchive' = llmDisk
    /\ llmLoaded' = llmDisk
    /\ UNCHANGED <<llmDisk, llmWorkers, archiveLock>>
    /\ UNCHANGED nonLlmVars

(***************************************************************************)
(* Exceptions of a worker outside the classifier call.  The try block of   *)
(* _process_event_llm holds call_openai only (scheduler.py:373-385): an    *)
(* exception of a mutator or of save_daily_archive leaves _mutate_event    *)
(* through its with block, which releases ARCHIVE_LOCK, and then           *)
(* _process_event_llm; the future holds it, and daily_llm_update logs it   *)
(* and goes on (lines 457-461).                                            *)
(***************************************************************************)

\* A mutator of _persist_llm_success that is left by an exception of the risk
\* computation (lines 314-321; calc_crowd and calc_growth do arithmetic on what
\* the posts and the heat series hold): posts and classification are written
\* into the event, risk fields, refresh date and status are not.
MutatedPartly(e) == [e EXCEPT !.result = "partial"]

\* _persist_llm_success, lines 299-321, under the lock of _mutate_event: the
\* mutator raises, the archive is not saved.
WorkerMutateRaises(w) ==
    /\ llmWorkers[w].pc = "lock"
    /\ llmWorkers[w].stage = "succeeded"
    /\ archiveLock = 0
    /\ llmArchive' = [llmArchive EXCEPT ![llmWorkers[w].name] = MutatedPartly(@)]
    /\ llmWorkers' = [llmWorkers EXCEPT ![w] = IdleWorker]
    /\ llmResults' = [llmResults EXCEPT ![llmWorkers[w].name] = "crashed"]
    /\ UNCHANGED <<llmDisk, llmPc, llmForce, llmPending, llmNext, archiveLock,
                   llmCollected, llmChanged, llmLog, llmClsRaised, llmNoPosts,
                   llmFinalSaves, riskSnapshots, llmRuns, llmLoaded>>
    /\ UNCHANGED nonLlmVars

\* _mutate_event, line 265: save_daily_archive raises (write_json has used up
\* its retries and its direct write has failed); the file keeps its content and
\* the lock is released.
WorkerSaveRaises(w) ==
    /\ llmWorkers[w].pc = "save"
    /\ archiveLock = w
    /\ archiveLock' = 0
    /\ llmWorkers' = [llmWorkers EXCEPT ![w] = IdleWorker]
    /\ llmResults' = [llmResults EXCEPT ![llmWorkers[w].name] = "crashed"]
    /\ UNCHANGED <<llmDisk, llmArchive, llmPc, llmForce, llmPending, llmNext,
                   llmCollected, llmChanged, llmLog, llmClsRaised, llmNoPosts,
                   llmFinalSaves, riskSnapshots, llmRuns, llmLoaded>>
    /\ UNCHANGED nonLlmVars

\* The server process ends while daily_llm_update runs (a restart, a kill): the
\* run's archive dict, its pool and its lock are gone with the process; the
\* archive file keeps what the last completed save left in it. The restarted
\* process is free to run daily_llm_update again.
Interrupt ==
    /\ llmPc \in {"pool", "completion"}
    /\ llmPc' = "idle"
    /\ llmWorkers' = [w \in Workers |-> IdleWorker]
    /\ archiveLock' = 0
    /\ llmForce' = FALSE
    /\ llmPending' = <<>>
    /\ llmNext' = 1
    /\ llmResults' = [n \in NameSet |-> "none"]
    /\ llmCollected' = {}
    /\ llmChanged' = FALSE
    /\ llmLog' = [n \in NameSet |-> <<>>]
    /\ llmClsRaised' = {}
    /\ llmNoPosts' = {}
    /\ llmFinalSaves' = 0
    /\ riskSnapshots' = 0
    /\ llmArchive' = llmDisk
    /\ llmLoaded' = llmDisk
    /\ UNCHANGED <<llmDisk, llmRuns>>
    /\ UNCHANGED nonLlmVars

(***************************************************************************)
(* Hourly monitor: spider/monitor_remote_hot_topics.py,                    *)
(* spider/fetch_hot_topics.py, backend/scheduler.py (_monitor_tick)        *)
(*                                                                         *)
(* The archive writes of the monitor are taken to succeed (write_json is   *)
(* the subject of SpecStore), and of the aicard service only the outcome   *)
(* of ensure_aicard_snapshot is kept: a snapshot, None, or an exception.   *)
(***************************************************************************)

LOCAL_FALLBACK_THRESHOLD_MINUTES == 45
MAX_LOOKBACK_DAYS == 1

\* Bound of the monitor model: the forced fetches of the current hour
\* (run_loop makes one when the monitor process starts).
MaxForced == 1

\* The calendar day the monitor runs in; the hours of the day before and the
\* hours of Today that ended before the model starts have their snapshots.
Today == 1

\* The clock counts minutes; a datetime is split the way datetime does it.
At(date, hour, minute) == date * 1440 + hour * 60 + minute
DateOf(t) == t \div 1440
HourOf(t) == (t % 1440) \div 60

\* The instants at which the clock is read.
Instants ==
    { At(Today, 8, 1), At(Today, 8, 45), At(Today, 9, 1), At(Today, 9, 45) }

\* The pairs whose snapshot is missing when the model starts.
TrackedPairs == { <<Today, 8>>, <<Today, 9>> }

\* f"{hour:02d}"
DigitChars == <<"0", "1", "2", "3", "4", "5", "6", "7", "8", "9">>
HourStr(hour) ==
    IF hour < 10 THEN "0" \o DigitChars[hour + 1]
    ELSE DigitChars[(hour \div 10) + 1] \o DigitChars[(hour % 10) + 1]

\* iso_time(date_str, hour): the stamp of the top of the hour; stamps of one
\* time zone compare as their (date, hour) do.
IsoTime(date, hour) == <<date, hour>>
SeenLeq(s, t) == s[1] < t[1] \/ (s[1] = t[1] /\ s[2] <= t[2])

\* Titles are sequences of characters; str.strip() removes the white space at
\* both ends.
RECURSIVE LStrip(_)
LStrip(s) == IF s # <<>> /\ Head(s) = " " THEN LStrip(Tail(s)) ELSE s
RECURSIVE RStrip(_)
RStrip(s) ==
    IF s # <<>> /\ s[Len(s)] = " " THEN RStrip(SubSeq(s, 1, Len(s) - 1)) ELSE s
Strip(s) == RStrip(LStrip(s))

\* A topic of a snapshot, as the sources deliver it.
Topic(title) == [title |-> title]

\* The hot lists a source can return.
SnapshotChoices ==
    { <<Topic(<<"a">>)>>,
      <<Topic(<<"a">>), Topic(<<"b">>)>>,
      <<Topic(<<" ", "a">>), Topic(<<" ">>)>> }

NoLatest == [date |-> 0, hour |-> ""]

\* Optional values: None and a present value.
None == <<>>
Some(v) == <<v>>

\* hour_path(date_str, hour).exists()
HourFileExists(files, date, hour) ==
    IF <<date, hour>> \in TrackedPairs THEN files[<<date, hour>>] # None
    ELSE At(date, hour, 0) < At(Today, 8, 0)

\* collect_pending_hours, lines 80-82: the missing hours 0..max_hour of one date
RECURSIVE PendingOfDate(_, _, _, _)
PendingOfDate(files, date, hour, max_hour) ==
    IF hour > max_hour THEN <<>>
    ELSE (IF HourFileExists(files, date, hour) THEN <<>> ELSE << <<date, hour>> >>)
         \o PendingOfDate(files, date, hour + 1, max_hour)

\* collect_pending_hours, lines 76-79: offsets 0..MAX_LOOKBACK_DAYS, today first
RECURSIVE PendingFromOffset(_, _, _)
PendingFromOffset(files, now, offset) ==
    IF offset > MAX_LOOKBACK_DAYS THEN <<>>
    ELSE PendingOfDate(files, DateOf(now) - offset, 0,
                       IF offset = 0 THEN HourOf(now) ELSE 23)
         \o PendingFromOffset(files, now, offset + 1)

CollectPendingHours(files, now) == PendingFromOffset(files, now, 0)

\* A fallback that only waits for the hour to start.
ShouldTriggerLocalOnceStarted(date, hour, now) == now >= At(date, hour, 0)

\* should_trigger_local
ShouldTriggerLocal(date, hour, now) ==
    LET target == At(date, hour, 0)
    IN  IF now < target THEN FALSE
        ELSE IF now - target >= LOCAL_FALLBACK_THRESHOLD_MINUTES THEN TRUE
        ELSE IF DateOf(now) > DateOf(target) THEN TRUE
        ELSE IF HourOf(now) > hour THEN TRUE
        ELSE FALSE

\* process_hour without its early return.
ProcessHourContinuesAlways(topics) == TRUE

\* process_hour, lines 131-133: if not topics: return False
ProcessHourContinues(topics) == topics # <<>>

\* An upsert that appends the hour whether or not it is listed.
AppendHourAlways(hours, hour_str) == Append(hours, hour_str)

\* upsert_topic, lines 155-156: the hour is appended if it is not listed yet
AppendHour(hours, hour_str) ==
    IF \E i \in 1..Len(hours) : hours[i] = hour_str THEN hours
    ELSE Append(hours, hour_str)

\* upsert_topic, lines 139-150: the record of a title seen for the first time
NewRecord(topic, date, hour) ==
    [title |-> topic.title,
     appeared_hours |-> <<HourStr(hour)>>,
     first_seen |-> IsoTime(date, hour),
     last_seen |-> IsoTime(date, hour),
     last_post_refresh |-> None,
     needs_refresh |-> TRUE]

\* An upsert that flags every record it merges into.
UpdatedRecordAlwaysFlags(record, topic, date, hour) ==
    [record EXCEPT
        !.title = topic.title,
        !.appeared_hours = AppendHour(@, HourStr(hour)),
        !.last_seen = IsoTime(date, hour),
        !.needs_refresh = TRUE]

\* upsert_topic, lines 153-164: the record of a title seen before
UpdatedRecord(record, topic, date, hour) ==
    [record EXCEPT
        !.title = topic.title,
        !.appeared_hours = AppendHour(@, HourStr(hour)),
        !.last_seen = IsoTime(date, hour),
        !.needs_refresh = IF record.last_post_refresh # Some(date) THEN TRUE ELSE @]

\* Assignment record_map[title] = record
Put(record_map, title, record) ==
    [k \in (DOMAIN record_map) \cup {title} |->
        IF k = title THEN record ELSE record_map[k]]

\* upsert_topic: the archive after the call; a topic whose stripped title is
\* empty changes nothing (the call returns None).
UpsertTopic(record_map, topic, date, hour) ==
    LET title == Strip(topic.title)
    IN  IF title = <<>> THEN record_map
        ELSE IF title \notin DOMAIN record_map
             THEN Put(record_map, title, NewRecord(topic, date, hour))
             ELSE Put(record_map, title,
                      UpdatedRecord(record_map[title], topic, date, hour))

\* update_topic, lines 121-133: the refresh date and the refresh flag after the
\* posts of a topic were crawled
UpdateTopic(record, date, has_posts) ==
    [record EXCEPT !.last_post_refresh = Some(date), !.needs_refresh = ~has_posts]

AICardOutcomes == {"snapshot", "none", "raise"}
CrawlOutcomes == {"posts", "no_posts", "raise"}

\* update_daily_archive, lines 97-116: the topics from index i on are merged;
\* ensure_aicard_snapshot is called for every topic that has a record, and its
\* AICardCooldownError / AICardRateLimitError leaves the loop.
RECURSIVE MergeTopics(_, _, _, _, _, _)
MergeTopics(daily_data, topics, date, hour, aicard, i) ==
    IF i > Len(topics) THEN [map |-> daily_data, raised |-> FALSE]
    ELSE LET merged == UpsertTopic(daily_data, topics[i], date, hour)
         IN  IF Strip(topics[i].title) # <<>> /\ aicard[i] = "raise"
             THEN [map |-> merged, raised |-> TRUE]
             ELSE MergeTopics(merged, topics, date, hour, aicard, i + 1)

\* refresh_posts_for_date, lines 147-159: every record that needs a refresh is
\* crawled; a failing crawl leaves the record as it is.
RefreshPosts(archive, date, crawl) ==
    [k \in DOMAIN archive |->
        IF archive[k].needs_refresh /\ crawl[k] \in {"posts", "no_posts"}
        THEN UpdateTopic(archive[k], date, crawl[k] = "posts")
        ELSE archive[k]]

\* _collect_hourly_posts, lines 278-292: the posts of the topics of the hour are
\* crawled; a failing crawl leaves the loop with its exception.
RECURSIVE CollectPosts(_, _, _, _, _)
CollectPosts(daily_data, topics, date, crawl, i) ==
    IF i > Len(topics) THEN [map |-> daily_data, raised |-> FALSE]
    ELSE LET title == Strip(topics[i].title)
         IN  IF title = <<>> \/ title \notin DOMAIN daily_data
             THEN CollectPosts(daily_data, topics, date, crawl, i + 1)
             ELSE IF crawl[i] = "raise"
             THEN [map |-> daily_data, raised |-> TRUE]
             ELSE CollectPosts(
                      Put(daily_data, title,
                          UpdateTopic(daily_data[title], date, crawl[i] = "posts")),
                      topics, date, crawl, i + 1)

\* The outcomes of the crawls made for the topics in `crawled`; no crawl is made
\* for the others.
CrawlsOf(crawled, all) ==
    { f \in [all -> CrawlOutcomes \cup {"no_crawl"}] :
        \A k \in all : f[k] = "no_crawl" <=> k \notin crawled }

\* What is remembered of the latest process_hour call.
NoCall ==
    [pair |-> <<0, 0>>, outcome |-> "none", primary_ok |-> FALSE,
     fallback_called |-> FALSE, checked_at |-> 0, got_topics |-> FALSE,
     local_used |-> FALSE, wrote_hourly |-> FALSE, wrote_daily |-> FALSE,
     was_pending |-> FALSE]

PrimaryOutcomes == {"ok", "http_404", "error", "empty"}
CallerModes == {"tick", "loop"}

\* The pair process_hour is working on.
Cur == monPending[monIdx]

InitMonVars ==
    /\ monNow = At(Today, 8, 1)
    /\ hourFiles = [p \in TrackedPairs |-> None]
    /\ dailyDisk \in
          { <<>>, Put(<<>>, <<"a">>, NewRecord(Topic(<<"a">>), Today, 7)) }
    /\ hotlistLatest = NoLatest
    /\ monPc = "idle"
    /\ monMode = "none"
    /\ monPending = <<>>
    /\ monIdx = 0
    /\ monTopics = <<>>
    /\ monLocalUsed = FALSE
    /\ monCall = NoCall
    /\ monSkipped = <<>>
    /\ monForced = 0

\* The for-loop over the pending pairs goes to the next pair, or ends.
LoopNext ==
    /\ monTopics' = <<>>
    /\ monLocalUsed' = FALSE
    /\ IF monIdx < Len(monPending)
       THEN /\ monPc' = "fetch"
            /\ monIdx' = monIdx + 1
            /\ UNCHANGED <<monPending, monMode>>
       ELSE /\ monPc' = "idle"
            /\ monIdx' = 0
            /\ monPending' = <<>>
            /\ monMode' = "none"

\* process_hour returns; _monitor_tick syncs the hot list after a True.
ReturnFromProcessHour(result) ==
    IF result /\ monMode = "tick"
    THEN /\ monPc' = "sync"
         /\ UNCHANGED <<monPending, monIdx, monTopics, monLocalUsed, monMode>>
    ELSE LoopNext

\* An exception leaves process_hour and the loop of its caller, which has no
\* handler: the pairs behind the current one are not processed.
TickRaises ==
    /\ monPc' = "idle"
    /\ monSkipped' = SubSeq(monPending, monIdx + 1, Len(monPending))
    /\ monIdx' = 0
    /\ monPending' = <<>>
    /\ monMode' = "none"
    /\ monTopics' = <<>>
    /\ monLocalUsed' = FALSE

\* _monitor_tick, lines 92-98 (mode "tick"), and process_pending_hours, lines
\* 157-164 (mode "loop"): the pending pairs are collected and the loop over them
\* starts; without pending pairs the call returns.
MonitorTick ==
    /\ monPc = "idle"
    /\ \E mode \in CallerModes :
       LET pending == CollectPendingHours(hourFiles, monNow)
       IN  IF pending = <<>>
           THEN UNCHANGED <<monPc, monMode, monPending, monIdx, monSkipped>>
           ELSE /\ monPc' = "fetch"
                /\ monMode' = mode
                /\ monPending' = pending
                /\ monIdx' = 1
                /\ monSkipped' = <<>>
    /\ UNCHANGED <<monNow, hourFiles, dailyDisk, hotlistLatest, monTopics,
                   monLocalUsed, monCall, monForced>>
    /\ UNCHANGED nonMonVars

\* process_latest_hour(force), lines 145-153: the current hour is processed,
\* unless its snapshot exists and the call is not forced.
ProcessLatestHour ==
    /\ monPc = "idle"
    /\ \E force \in BOOLEAN :
          /\ force => monForced < MaxForced
          /\ monForced' = IF force THEN monForced + 1 ELSE monForced
          /\ IF ~force /\ HourFileExists(hourFiles, DateOf(monNow), HourOf(monNow))
             THEN UNCHANGED <<monPc, monMode, monPending, monIdx, monSkipped>>
             ELSE /\ monPc' = "fetch"
                  /\ monMode' = "latest"
                  /\ monPending' = << <<DateOf(monNow), HourOf(monNow)>> >>
                  /\ monIdx' = 1
                  /\ monSkipped' = <<>>
    /\ UNCHANGED <<monNow, hourFiles, dailyDisk, hotlistLatest, monTopics,
                   monLocalUsed, monCall>>
    /\ UNCHANGED nonMonVars

\* process_hour, line 130, and fetch_topics_with_fallback, lines 171-202: the
\* remote fetch returns a list ("ok"), an empty list ("empty"), HTTP 404, or
\* fails otherwise ("error"); only a non-empty list is returned at once.
FetchHourTopics ==
    /\ monPc = "fetch"
    /\ \E primary \in PrimaryOutcomes :
       \E topics \in (IF primary = "ok" THEN SnapshotChoices ELSE {<<>>}) :
          /\ monCall' = [NoCall EXCEPT
                           !.pair = Cur,
                           !.outcome = "running",
                           !.primary_ok = (primary = "ok"),
                           !.got_topics = (topics # <<>>),
                           !.was_pending =
                               ~HourFileExists(hourFiles, Cur[1], Cur[2])]
          /\ monTopics' = topics
          /\ monPc' = IF primary = "ok" THEN "hourly" ELSE "local"
    /\ monLocalUsed' = FALSE
    /\ UNCHANGED <<monNow, hourFiles, dailyDisk, hotlistLatest, monMode, monPending,
                   monIdx, monSkipped, monForced>>
    /\ UNCHANGED nonMonVars

\* _maybe_fetch_local, lines 239-249, fetch_local_topics_with_logging, lines
\* 205-218 (a failing or empty local crawl gives []), and process_hour, lines
\* 131-133.
MaybeFetchLocal ==
    /\ monPc = "local"
    /\ LET warranted == ShouldTriggerLocal(Cur[1], Cur[2], monNow)
       IN  \E topics \in (IF warranted THEN SnapshotChoices \cup {<<>>} ELSE {<<>>}) :
              IF ProcessHourContinues(topics)
              THEN /\ monCall' = [monCall EXCEPT
                                    !.fallback_called = warranted,
                                    !.checked_at = monNow,
                                    !.got_topics = (topics # <<>>),
                                    !.local_used = (topics # <<>>)]
                   /\ monTopics' = topics
                   /\ monLocalUsed' = (topics # <<>>)
                   /\ monPc' = "hourly"
                   /\ UNCHANGED <<monPending, monIdx, monMode>>
              ELSE /\ monCall' = [monCall EXCEPT
                                    !.fallback_called = warranted,
                                    !.checked_at = monNow,
                                    !.outcome = IF warranted THEN "no_topics"
                                                ELSE "deferred"]
                   /\ ReturnFromProcessHour(FALSE)
    /\ UNCHANGED <<monNow, hourFiles, dailyDisk, hotlistLatest, monSkipped, monForced>>
    /\ UNCHANGED nonMonVars

\* update_hourly_archive: write_json(path, topics)
UpdateHourlyArchive ==
    /\ monPc = "hourly"
    /\ hourFiles' = [hourFiles EXCEPT ![Cur] = Some(monTopics)]
    /\ monCall' = [monCall EXCEPT !.wrote_hourly = TRUE]
    /\ monPc' = "daily"
    /\ UNCHANGED <<monNow, dailyDisk, hotlistLatest, monMode, monPending, monIdx,
                   monTopics, monLocalUsed, monSkipped, monForced>>
    /\ UNCHANGED nonMonVars

\* update_daily_archive: load, merge every topic, save; an exception of the
\* aicard service leaves the function before the save.
UpdateDailyArchive ==
    /\ monPc = "daily"
    /\ \E aicard \in [1..Len(monTopics) -> AICardOutcomes] :
          LET merge == MergeTopics(dailyDisk, monTopics, Cur[1], Cur[2], aicard, 1)
          IN  IF merge.raised
              THEN /\ monCall' = [monCall EXCEPT !.outcome = "raised"]
                   /\ TickRaises
                   /\ UNCHANGED dailyDisk
              ELSE /\ dailyDisk' = merge.map
                   /\ monCall' = [monCall EXCEPT !.wrote_daily = TRUE]
                   /\ monPc' = "posts"
                   /\ UNCHANGED <<monPending, monIdx, monTopics, monLocalUsed,
                                  monSkipped, monMode>>
    /\ UNCHANGED <<monNow, hourFiles, hotlistLatest, monForced>>
    /\ UNCHANGED nonMonVars

\* _refresh_posts_if_needed (refresh_posts_for_date and its save; every
\* exception is caught), then _collect_hourly_posts, then process_hour returns
\* True (lines 139-142).
RefreshAndCollectPosts ==
    /\ monPc = "posts"
    /\ \E refresh \in CrawlsOf({k \in DOMAIN dailyDisk : dailyDisk[k].needs_refresh},
                               DOMAIN dailyDisk) :
       \E crawl \in CrawlsOf({i \in 1..Len(monTopics) : Strip(monTopics[i].title) # <<>>},
                             1..Len(monTopics)) :
          LET refreshed == RefreshPosts(dailyDisk, Cur[1], refresh)
              posts == CollectPosts(refreshed, monTopics, Cur[1], crawl, 1)
          IN  IF posts.raised
              THEN /\ dailyDisk' = refreshed
                   /\ monCall' = [monCall EXCEPT !.outcome = "raised"]
                   /\ TickRaises
              ELSE /\ dailyDisk' = posts.map
                   /\ monCall' = [monCall EXCEPT !.outcome = "done"]
                   /\ ReturnFromProcessHour(TRUE)
                   /\ UNCHANGED monSkipped
    /\ UNCHANGED <<monNow, hourFiles, hotlistLatest, monForced>>
    /\ UNCHANGED nonMonVars

\* _sync_hotlist_snapshot: the hourly file is read back and saved as the hot
\* list of the hour (the same path, the same content) and as latest.json, whose
\* data is that content.
SyncHotlistSnapshot ==
    /\ monPc = "sync"
    /\ IF hourFiles[Cur] = None
       THEN UNCHANGED hotlistLatest
       ELSE hotlistLatest' = [date |-> Cur[1], hour |-> HourStr(Cur[2])]
    /\ LoopNext
    /\ UNCHANGED <<monNow, hourFiles, dailyDisk, monCall, monSkipped, monForced>>
    /\ UNCHANGED nonMonVars

\* Time passes; the clock is read when a tick or a forced fetch starts and by
\* should_trigger_local.
Advance ==
    /\ monPc \in {"idle", "local"}
    /\ \E t \in Instants : t > monNow /\ monNow' = t
    /\ UNCHANGED <<hourFiles, dailyDisk, hotlistLatest, monPc, monMode, monPending,
                   monIdx, monTopics, monLocalUsed, monCall, monSkipped, monForced>>
    /\ UNCHANGED nonMonVars
(***************************************************************************)
(* Archive merges around midnight: upsert_topic (fetch_hot_topics.py) and  *)
(* update_topic (update_posts.py) applied by process_hour to the hours     *)
(* 22 and 23 of the day before Today and to hour 00 of Today.  The fetch   *)
(* always delivers topics and the aicard service returns no snapshot: the  *)
(* fallback and the failures of the merge are followed in SpecMon.         *)
(***************************************************************************)

Yesterday == Today - 1
CuDates == { Yesterday, Today }

\* The pairs whose snapshot is missing when the model starts.
CuPairs == { <<Yesterday, 22>>, <<Yesterday, 23>>, <<Today, 0>> }

\* The instants at which the clock is read.
CuInstants == { At(Yesterday, 22, 10), At(Yesterday, 23, 10), At(Today, 0, 10) }

\* collect_pending_hours: the pairs of the look-back window whose file is missing
CuPending(files, now) ==
    { p \in CuPairs \ files :
        /\ DateOf(now) - p[1] \in 0..MAX_LOOKBACK_DAYS
        /\ (p[1] = DateOf(now) => p[2] <= HourOf(now)) }

\* process_latest_hour(force=True): the current hour, whether its file exists or not
CuLatest(now) == { <<DateOf(now), HourOf(now)>> } \cap CuPairs

\* The titles a snapshot merges into the archive.
MergedTitles(topics) ==
    { Strip(topics[i].title) : i \in 1..Len(topics) } \ { <<>> }

NoMerge ==
    [date |-> 0, hour |-> 0, today |-> 0, topics |-> <<>>,
     before |-> <<>>, after |-> <<>>]

InitCuVars ==
    /\ cuNow = At(Yesterday, 22, 10)
    /\ cuFiles = {}
    /\ cuArchives = [d \in CuDates |-> <<>>]
    /\ cuLast = NoMerge

\* process_hour for a pending pair or for the forced current hour:
\* update_hourly_archive, then update_daily_archive.
CuProcessHour ==
    /\ \E pair \in CuPending(cuFiles, cuNow) \cup CuLatest(cuNow) :
       \E topics \in SnapshotChoices :
          LET date == pair[1]
              hour == pair[2]
              aicard == [i \in 1..Len(topics) |-> "none"]
              merged == MergeTopics(cuArchives[date], topics, date, hour, aicard, 1)
          IN  /\ cuFiles' = cuFiles \cup {pair}
              /\ cuArchives' = [cuArchives EXCEPT ![date] = merged.map]
              /\ cuLast' = [date |-> date, hour |-> hour, today |-> DateOf(cuNow),
                            topics |-> topics, before |-> cuArchives[date],
                            after |-> merged.map]
    /\ UNCHANGED <<cuNow, nonCuVars>>

\* _refresh_posts_if_needed(date_str) of the same process_hour call
CuRefreshPosts ==
    /\ cuLast # NoMerge
    /\ \E crawl \in CrawlsOf({k \in DOMAIN cuArchives[cuLast.date] :
                                 cuArchives[cuLast.date][k].needs_refresh},
                             DOMAIN cuArchives[cuLast.date]) :
          cuArchives' = [cuArchives EXCEPT
                            ![cuLast.date] = RefreshPosts(@, cuLast.date, crawl)]
    /\ UNCHANGED <<cuNow, cuFiles, cuLast, nonCuVars>>

\* Time passes.
CuAdvance ==
    /\ \E t \in CuInstants :
          /\ t > cuNow
          /\ \A u \in CuInstants : u > cuNow => t <= u
          /\ cuNow' = t
    /\ UNCHANGED <<cuFiles, cuArchives, cuLast, nonCuVars>>
(***************************************************************************)
(* Rate-limit policy: spider/rate_limiter.py, class RateLimitPolicy with   *)
(* its default settings.  The callers of the policy are free to call its   *)
(* methods in any order; time passes between the calls.  A random          *)
(* duration is one of the two ends of its range, and a random jitter       *)
(* factor is one of the two ends of its range or 1.  The jitter is given   *)
(* to __init__ (by create_policy_from_env from the environment).           *)
(***************************************************************************)

\* RateLimitPolicy.__init__: the default settings, in seconds
BASE_DELAY == 5
JITTER == 200
MAX_BACKOFF_ATTEMPTS == 3
SOFT_THRESHOLD == 2
COOLDOWN_WINDOW == 3600
SOFT_RANGE == <<300, 900>>
HARD_RANGE == <<1800, 3600>>

\* Bounds of the policy model: the clock stops at MaxClock, and next_delay and
\* record_failure are called at most MaxCalls times without a record_success
\* in between.
MaxClock == 4800
MaxCalls == 4
\* The number of cooldowns the history keeps.
MaxHistory == 3

\* 2 ** exp
RECURSIVE TwoToThe(_)
TwoToThe(exp) == IF exp = 0 THEN 1 ELSE 2 * TwoToThe(exp - 1)

\* The jitter settings, in thousandths: none, the default, and one above 1.
Jitters == {0, JITTER, 1500}

\* random.uniform(1 - self.jitter, 1 + self.jitter), in thousandths; 1.0 when
\* the jitter is 0
JitterFactors(jitter) ==
    IF jitter = 0 THEN {1000} ELSE {1000 - jitter, 1000, 1000 + jitter}

\* A delay whose exponent grows without a cap.
DelayForUncapped(attempts, factor) ==
    Max(BASE_DELAY * TwoToThe(attempts) * factor, 0)

\* next_delay, lines 123-129: the delay in milliseconds for the given attempt
\* counter and jitter factor
DelayFor(attempts, factor) ==
    LET exp == Min(attempts, MAX_BACKOFF_ATTEMPTS - 1)
        delay == BASE_DELAY * TwoToThe(exp)
    IN  Max(delay * factor, 0)

\* The time that passes between two calls.
TimeSteps == {900, 3000}

\* random.uniform(*range)
Durations(range) == {range[1], range[2]}

\* A pruning that keeps every hit.
PruneSoftHitsKeepAll(hits, now) == hits

\* _prune_soft_hits: the hits older than the window are dropped from the left
RECURSIVE PruneSoftHits(_, _)
PruneSoftHits(hits, now) ==
    IF hits # <<>> /\ Head(hits) < now - COOLDOWN_WINDOW
    THEN PruneSoftHits(Tail(hits), now)
    ELSE hits

\* _enter_cooldown, line 152: if len(self._soft_hits) >= self.soft_threshold
Escalates(hits) == Len(hits) >= SOFT_THRESHOLD

\* _enter_cooldown("soft"): the level, the soft hits and the possible durations
\* of the cooldown entered at `now`; counted is the number of soft hits inside
\* the window when the level is decided.
EnterCooldown(hits, now) ==
    LET pruned == PruneSoftHits(Append(hits, now), now)
    IN  IF Escalates(pruned)
        THEN [level |-> "hard", soft_hits |-> <<>>,
              durations |-> Durations(HARD_RANGE), counted |-> Len(pruned)]
        ELSE [level |-> "soft", soft_hits |-> pruned,
              durations |-> Durations(SOFT_RANGE), counted |-> Len(pruned)]

\* in_cooldown()[0] as it would be answered now
CooldownActive == rlCooldownUntil # None /\ rlCooldownUntil[1] - rlNow > 0

\* The history with one more cooldown, the oldest dropped when it is full.
Remember(history, level, now) ==
    LET all == Append(history, <<level, now>>)
    IN  IF Len(all) > MaxHistory THEN Tail(all) ELSE all

NoRlCall == [op |-> "none", ret |-> None]
NoCooldown == [level |-> "none", counted |-> 0]

\* RateLimitPolicy.__init__
InitRlVars ==
    /\ rlJitter \in Jitters
    /\ rlNow = 0
    /\ rlAttempts = 0
    /\ rlCooldownUntil = None
    /\ rlCooldownLevel = None
    /\ rlLastFailureTs = None
    /\ rlSoftHits = <<>>
    /\ rlFailures = 0
    /\ rlLast = NoRlCall
    /\ rlLastCooldown = NoCooldown
    /\ rlHistory = <<>>

\* next_delay(): base_delay * 2 ** min(attempts, max_backoff_attempts - 1)
\* times the jitter factor, in milliseconds; attempts += 1
NextDelay ==
    /\ rlAttempts < MaxCalls
    /\ rlAttempts' = rlAttempts + 1
    /\ \E factor \in JitterFactors(rlJitter) :
          rlLast' = [op |-> "next_delay",
                     ret |-> Some(DelayFor(rlAttempts, factor))]
    /\ UNCHANGED <<rlJitter, rlNow, rlCooldownUntil, rlCooldownLevel,
                   rlLastFailureTs, rlSoftHits, rlFailures, rlLastCooldown,
                   rlHistory>>
    /\ UNCHANGED nonRlVars

\* record_failure(): None while attempts < max_backoff_attempts, else
\* _enter_cooldown("soft")
RecordFailure ==
    /\ rlFailures < MaxCalls
    /\ rlFailures' = rlFailures + 1
    /\ rlLastFailureTs' = Some(rlNow)
    /\ IF rlAttempts < MAX_BACKOFF_ATTEMPTS
       THEN /\ rlLast' = [op |-> "record_failure", ret |-> None]
            /\ UNCHANGED <<rlAttempts, rlCooldownUntil, rlCooldownLevel,
                           rlSoftHits, rlLastCooldown, rlHistory>>
       ELSE LET cd == EnterCooldown(rlSoftHits, rlNow)
            IN  /\ \E duration \in cd.durations :
                      /\ rlCooldownUntil' = Some(rlNow + duration)
                      /\ rlLast' = [op |-> "record_failure",
                                    ret |-> Some(<<cd.level, duration>>)]
                /\ rlCooldownLevel' = Some(cd.level)
                /\ rlSoftHits' = cd.soft_hits
                /\ rlAttempts' = 0
                /\ rlLastCooldown' = [level |-> cd.level, counted |-> cd.counted]
                /\ rlHistory' = Remember(rlHistory, cd.level, rlNow)
    /\ UNCHANGED <<rlJitter, rlNow>>
    /\ UNCHANGED nonRlVars

\* record_success()
RecordSuccess ==
    /\ rlAttempts' = 0
    /\ rlLastFailureTs' = None
    /\ rlSoftHits' = PruneSoftHits(rlSoftHits, rlNow)
    /\ rlFailures' = 0
    /\ rlLast' = [op |-> "record_success", ret |-> None]
    /\ UNCHANGED <<rlJitter, rlNow, rlCooldownUntil, rlCooldownLevel,
                   rlLastCooldown, rlHistory>>
    /\ UNCHANGED nonRlVars

\* in_cooldown(): an expired cooldown is cleared
InCooldown ==
    /\ IF rlCooldownUntil = None
       THEN /\ rlLast' = [op |-> "in_cooldown", ret |-> Some(<<FALSE, 0>>)]
            /\ UNCHANGED <<rlCooldownUntil, rlCooldownLevel>>
       ELSE IF rlCooldownUntil[1] - rlNow <= 0
       THEN /\ rlCooldownUntil' = None
            /\ rlCooldownLevel' = None
            /\ rlLast' = [op |-> "in_cooldown", ret |-> Some(<<FALSE, 0>>)]
       ELSE /\ rlLast' = [op |-> "in_cooldown",
                          ret |-> Some(<<TRUE, rlCooldownUntil[1] - rlNow>>)]
            /\ UNCHANGED <<rlCooldownUntil, rlCooldownLevel>>
    /\ UNCHANGED <<rlJitter, rlNow, rlAttempts, rlLastFailureTs, rlSoftHits,
                   rlFailures, rlLastCooldown, rlHistory>>
    /\ UNCHANGED nonRlVars

\* time.monotonic() moves on between two calls.
RlAdvance ==
    /\ \E step \in TimeSteps :
          /\ rlNow + step <= MaxClock
          /\ rlNow' = rlNow + step
    /\ rlLast' = NoRlCall
    /\ UNCHANGED <<rlJitter, rlAttempts, rlCooldownUntil, rlCooldownLevel,
                   rlLastFailureTs, rlSoftHits, rlFailures, rlLastCooldown,
                   rlHistory>>
    /\ UNCHANGED nonRlVars

(***************************************************************************)
(* Credential pool: spider/cookie_pool.py, class CookiePool as built by    *)
(* get_cookie_pool.  The entries are loaded once, without duplicate        *)
(* values; the callers of the pool are free to call current() and          *)
(* mark_bad() with any credential, and time passes between the calls.      *)
(***************************************************************************)

COOKIE_COOLDOWN_SECONDS == 600
\* Credentials are numbered: 0 is the fallback credential, i > 0 the value of
\* the i-th entry that can be loaded.
FALLBACK_COOKIE == 0

\* Bounds of the pool model: a pool holds at most MaxPool entries, and the
\* clock stops at MaxPoolClock.
MaxPool == 3
MaxPoolClock == 2100

\* time.time() when the pool is built, and the time that passes between two
\* calls.
PoolStart == 600
PoolSteps == {300, 600}

\* The values of the entries _build_pool_entries can load, in pool order.
PoolCookies == [i \in 1..MaxPool |-> i]

\* The credentials a caller can hand to mark_bad: the values of the entries,
\* and the fallback credential, which is the value of no entry.
Cookies == {PoolCookies[i] : i \in 1..MaxPool} \cup {FALLBACK_COOKIE}

\* _CookieEntry(value, label): last_bad is 0.0 until the entry is marked
NewPool(n) == [i \in 1..n |-> [value |-> PoolCookies[i], last_bad |-> 0]]

\* _CookieEntry.available
Available(entry, now) ==
    entry.last_bad <= 0 \/ (now - entry.last_bad) >= COOKIE_COOLDOWN_SECONDS

\* A search that takes the start index whatever its state.
PickAvailableAtStart(entries, start, now) == start % Len(entries)

\* A search that goes back to the entry before start when all are cooling.
PickAvailableStay(entries, start, now) ==
    LET n == Len(entries)
        hits == {offset \in 0..(n - 1) :
                    Available(entries[((start + offset) % n) + 1], now)}
    IN  IF hits # {}
        THEN (start + (CHOOSE o \in hits : \A p \in hits : o <= p)) % n
        ELSE (start + n - 1) % n

\* _pick_available (0-based positions): the first available entry from start
\* on in cyclic order, else start % n
PickAvailable(entries, start, now) ==
    LET n == Len(entries)
        hits == {offset \in 0..(n - 1) :
                    Available(entries[((start + offset) % n) + 1], now)}
    IN  IF hits # {}
        THEN (start + (CHOOSE o \in hits : \A p \in hits : o <= p)) % n
        ELSE start % n

\* A lookup that finds no entry.
FindIndexNever(entries, cookie) == None

\* _find_index: the first entry with the value, or None
FindIndex(entries, cookie) ==
    LET hits == {i \in 1..Len(entries) : entries[i].value = cookie}
    IN  IF hits = {} THEN None
        ELSE Some((CHOOSE i \in hits : \A j \in hits : i <= j) - 1)

\* self._index or 0
IndexOr0(index) == IF index = None THEN 0 ELSE index[1]

NoCpCall == [op |-> "none", arg |-> None, ret |-> None, from |-> None,
             found |-> <<>>, at |-> 0]

\* CookiePool.__init__ over the entries of _build_pool_entries
InitCpVars ==
    /\ cpEntries \in {NewPool(n) : n \in 0..MaxPool}
    /\ cpIndex = IF cpEntries # <<>> THEN Some(0) ELSE None
    /\ cpNow = PoolStart
    /\ cpLast = NoCpCall

CpCall(op, arg, ret) ==
    [op |-> op, arg |-> arg, ret |-> ret, from |-> cpIndex, found |-> cpEntries,
     at |-> cpNow]

\* current()
Current ==
    /\ IF cpEntries = <<>>
       THEN /\ cpLast' = CpCall("current", None, FALLBACK_COOKIE)
            /\ UNCHANGED cpIndex
       ELSE IF cpIndex # None /\ Available(cpEntries[cpIndex[1] + 1], cpNow)
       THEN /\ cpLast' = CpCall("current", None, cpEntries[cpIndex[1] + 1].value)
            /\ UNCHANGED cpIndex
       ELSE LET start == IF cpIndex # None THEN cpIndex[1] + 1 ELSE 0
                idx == PickAvailable(cpEntries, start, cpNow)
            IN  /\ cpIndex' = Some(idx)
                /\ cpLast' = CpCall("current", None, cpEntries[idx + 1].value)
    /\ UNCHANGED <<cpEntries, cpNow>>
    /\ UNCHANGED nonCpVars

\* mark_bad(choice) followed by _rotate_from_current(now)
MarkBad(cookie) ==
    /\ IF cpEntries = <<>>
       THEN /\ cpLast' = CpCall("mark_bad", Some(cookie), FALLBACK_COOKIE)
            /\ UNCHANGED <<cpEntries, cpIndex>>
       ELSE LET found == FindIndex(cpEntries, cookie)
                idx == IF found = None THEN IndexOr0(cpIndex) ELSE found[1]
                marked == [cpEntries EXCEPT ![idx + 1].last_bad = cpNow]
                next == PickAvailable(marked, IndexOr0(Some(idx)) + 1, cpNow)
            IN  /\ cpEntries' = marked
                /\ cpIndex' = Some(next)
                /\ cpLast' = CpCall("mark_bad", Some(cookie), marked[next + 1].value)
    /\ UNCHANGED cpNow
    /\ UNCHANGED nonCpVars

\* time.time() moves on between two calls.
CpAdvance ==
    /\ \E step \in PoolSteps :
          /\ cpNow + step <= MaxPoolClock
          /\ cpNow' = cpNow + step
    /\ cpLast' = NoCpCall
    /\ UNCHANGED <<cpEntries, cpIndex>>
    /\ UNCHANGED nonCpVars

(***************************************************************************)
(* Risk model: backend/risk_model.py, and its use by _persist_llm_success  *)
(* in backend/scheduler.py.  A dimension is a whole number of points, a    *)
(* weight a number of hundredths, and a score a number of hundredths of a  *)
(* point (5000 is the score 50.0); floating-point rounding is left out.    *)
(***************************************************************************)

\* backend/config.py, RISK_WEIGHTS, in hundredths
DimNames == {"negativity", "growth", "sensitivity", "crowd"}
RISK_WEIGHTS ==
    [negativity |-> 35, growth |-> 25, sensitivity |-> 20, crowd |-> 20]

\* The dims a caller can pass: a dimension is missing, in range, at the ends of
\* the range or outside it.
DimValues == {None, Some(0 - 50), Some(0), Some(40), Some(100), Some(150)}

\* The scores a caller can pass, in hundredths: None, and values below, at and
\* above the ends of the range and the two tier thresholds.
Scores ==
    {None} \cup {Some(v) : v \in {0 - 500, 0, 1, 1999, 2000, 4999, 5000,
                                 10000, 10001}}

\* A clamp that only cuts at the upper end.
ClampUpperOnly(v, lo, hi) == Min(hi, v)

\* clamp(v, lo, hi): max(lo, min(hi, v))
Clamp(v, lo, hi) == Max(lo, Min(hi, v))

\* dims.get(k, 0.0)
DimGet(dims, k) == IF dims[k] = None THEN 0 ELSE dims[k][1]

\* the sum of aggregate_score over the remaining weights
RECURSIVE WeightedSum(_, _)
WeightedSum(dims, names) ==
    IF names = {} THEN 0
    ELSE LET k == CHOOSE n \in names : TRUE
         IN  RISK_WEIGHTS[k] * Clamp(DimGet(dims, k), 0, 100)
                + WeightedSum(dims, names \ {k})

\* aggregate_score(dims), in hundredths
AggregateScore(dims) == Clamp(WeightedSum(dims, DimNames), 0, 10000)

\* float(score or 0.0)
ScoreOr0(score) == IF score = None THEN 0 ELSE score[1]

\* Tiers whose upper threshold is exclusive.
RiskLevelFromScoreAbove(score) ==
    LET normalized == Clamp(ScoreOr0(score), 0, 10000)
    IN  IF normalized > 5000 THEN "high"
        ELSE IF normalized >= 2000 THEN "mid"
        ELSE "low"

\* risk_level_from_score(score)
RiskLevelFromScore(score) ==
    LET normalized == Clamp(ScoreOr0(score), 0, 10000)
    IN  IF normalized >= 5000 THEN "high"
        ELSE IF normalized >= 2000 THEN "mid"
        ELSE "low"

\* Segments that fill the tiers from the bottom up to the score.
RiskTierSegmentsStacked(score) ==
    LET normalized == Clamp(ScoreOr0(score), 0, 10000)
    IN  [low |-> IF normalized < 2000 THEN normalized ELSE 2000,
         mid |-> IF normalized < 2000 THEN 0
                 ELSE IF normalized < 5000 THEN normalized - 2000 ELSE 3000,
         high |-> IF normalized < 5000 THEN 0 ELSE normalized - 5000]

\* risk_tier_segments(score)
RiskTierSegments(score) ==
    LET normalized == Clamp(ScoreOr0(score), 0, 10000)
        level == RiskLevelFromScore(Some(normalized))
    IN  [[low |-> 0, mid |-> 0, high |-> 0] EXCEPT ![level] = normalized]

NoRkCall == [op |-> "none", ret |-> None]

\* The arguments of the calls.
InitRkVars ==
    /\ rkDims \in [DimNames -> DimValues]
    /\ rkScore \in Scores
    /\ rkLast = NoRkCall

\* aggregate_score(dims)
CallAggregateScore ==
    /\ rkLast' = [op |-> "aggregate_score", ret |-> Some(AggregateScore(rkDims))]
    /\ UNCHANGED <<rkDims, rkScore>>
    /\ UNCHANGED nonRkVars

\* risk_level_from_score(score)
CallRiskLevelFromScore ==
    /\ rkLast' = [op |-> "risk_level_from_score",
                  ret |-> Some(RiskLevelFromScore(rkScore))]
    /\ UNCHANGED <<rkDims, rkScore>>
    /\ UNCHANGED nonRkVars

\* risk_tier_segments(score)
CallRiskTierSegments ==
    /\ rkLast' = [op |-> "risk_tier_segments",
                  ret |-> Some(RiskTierSegments(rkScore))]
    /\ UNCHANGED <<rkDims, rkScore>>
    /\ UNCHANGED nonRkVars

\* _persist_llm_success, lines 322-343: risk_score, the three tier fields and
\* risk_level of the record, from the risk_dims of the topic, then the refresh
\* date (the today marker of the run) and the status succeeded
PersistRisk ==
    /\ LET risk_score == AggregateScore(rkDims)
           tiers == RiskTierSegments(Some(risk_score))
       IN  rkLast' = [op |-> "persist",
                      ret |-> Some([risk_score |-> risk_score,
                                    risk_low |-> tiers.low,
                                    risk_mid |-> tiers.mid,
                                    risk_high |-> tiers.high,
                                    risk_level |->
                                        RiskLevelFromScore(Some(risk_score)),
                                    last_content_update_date |-> "today",
                                    llm_state |-> "succeeded"])]
    /\ UNCHANGED <<rkDims, rkScore>>
    /\ UNCHANGED nonRkVars

(***************************************************************************)
(* A monitor tick on the day archive of the enrichment batch: process_hour *)
(* of spider/monitor_remote_hot_topics.py works on the archive file that   *)
(* daily_llm_update of backend/scheduler.py has loaded.  The two jobs run  *)
(* in different threads of the scheduler; ARCHIVE_LOCK is taken by         *)
(* _mutate_event only.  Every cycle of process_hour loads the whole        *)
(* archive, changes its copy and saves the whole copy; the cycle of        *)
(* refresh_posts_for_date between the two that are followed here is left   *)
(* out.                                                                    *)
(***************************************************************************)

\* The topics of the hourly snapshot the tick merges, and their heat.
TickTopics == {"a", "b"}
TickHot == 2

\* update_daily_archive, lines 97-101: upsert_topic for every topic of the
\* snapshot; the reading of the hour is added to hot_values
MergeHour(daily_data) ==
    [n \in NameSet |->
        IF n \in TickTopics
        THEN [daily_data[n] EXCEPT !.hot_values = Append(@, TickHot)]
        ELSE daily_data[n]]

InitShVars ==
    /\ shPc = "idle"
    /\ shData = None

\* update_daily_archive, line 95: daily_data = load_daily_archive(date_str)
TickLoadDaily ==
    /\ shPc = "idle"
    /\ shData' = Some(llmDisk)
    /\ shPc' = "merge"
    /\ UNCHANGED llmDisk
    /\ UNCHANGED nonShVars

\* update_daily_archive, lines 97-117: the upserts, with the AI-card fetch of
\* every topic, then save_daily_archive(date_str, daily_data)
TickSaveDaily ==
    /\ shPc = "merge"
    /\ llmDisk' = MergeHour(shData[1])
    /\ shData' = None
    /\ shPc' = "posts"
    /\ UNCHANGED nonShVars

\* _collect_hourly_posts, line 275: daily_data = load_daily_archive(date_str)
TickLoadForPosts ==
    /\ shPc = "posts"
    /\ shData' = Some(llmDisk)
    /\ shPc' = "collect"
    /\ UNCHANGED llmDisk
    /\ UNCHANGED nonShVars

\* _collect_hourly_posts, lines 278-294: ensure_topic_posts for the topics of
\* the snapshot (the crawl changes no field the model follows), then
\* save_daily_archive(date_str, daily_data)
TickSavePosts ==
    /\ shPc = "collect"
    /\ llmDisk' = shData[1]
    /\ shData' = None
    /\ shPc' = "done"
    /\ UNCHANGED nonShVars

(***************************************************************************)
(* The threads of the server process that execute the two jobs.            *)
(* scripts/run_server.py calls create_app(), which starts the scheduler    *)
(* with the jobs hot_topics_monitor (_monitor_tick) and daily_llm          *)
(* (daily_llm_update), and starts the monitor loop of                      *)
(* spider/monitor_remote_hot_topics.py in a thread of its own; the admin   *)
(* endpoint of backend/app.py calls daily_llm_update in the thread of the  *)
(* request.  add_job is called without max_instances, so the scheduler     *)
(* runs one instance of a job at a time and skips a firing that finds the  *)
(* job running.                                                            *)
(***************************************************************************)

SchedulerThreads == {"daily_llm", "hot_topics_monitor"}
RequestThreads == {"request1", "request2"}
LoopThread == "monitor_loop"
Threads == SchedulerThreads \cup RequestThreads \cup {LoopThread}

\* The job a thread executes.
JobOf(t) == IF t \in {"hot_topics_monitor", LoopThread} THEN "monitor" ELSE "llm"

IdleThread == [pc |-> "idle", date |-> "none"]

InitJobVars == jobExec = [t \in Threads |-> IdleThread]

\* start_scheduler, lines 541-556: a job of the scheduler fires; the job is
\* not started while its previous instance runs. daily_llm_update() works on
\* yesterday's archive, _monitor_tick on the pending hours up to today.
SchedulerFires(t) ==
    /\ jobExec[t].pc = "idle"
    /\ jobExec' = [jobExec EXCEPT
                     ![t] = [pc |-> "called",
                             date |-> IF t = "daily_llm" THEN "yesterday"
                                      ELSE "today"]]
    /\ UNCHANGED nonJobVars

\* run_daily_llm, lines 468-477: the request handler calls
\* daily_llm_update(target_date=..., force=True); without a date the target is
\* yesterday.
RunDailyLlm(t) ==
    /\ jobExec[t].pc = "idle"
    /\ \E target_date \in {"yesterday", "today"} :
          jobExec' = [jobExec EXCEPT ![t] = [pc |-> "called", date |-> target_date]]
    /\ UNCHANGED nonJobVars

\* run_loop, line 303: process_pending_hours in the thread of the monitor loop
MonitorLoopCalls ==
    /\ jobExec[LoopThread].pc = "idle"
    /\ jobExec' = [jobExec EXCEPT ![LoopThread] = [pc |-> "called", date |-> "today"]]
    /\ UNCHANGED nonJobVars

\* daily_llm_update, line 405, and update_daily_archive, line 95: the execution
\* loads the day archive and works on its copy.
JobLoads(t) ==
    /\ jobExec[t].pc = "called"
    /\ jobExec' = [jobExec EXCEPT ![t].pc = "working"]
    /\ UNCHANGED nonJobVars

\* The function the thread executes returns.
JobReturns(t) ==
    /\ jobExec[t].pc = "working"
    /\ jobExec' = [jobExec EXCEPT ![t] = IdleThread]
    /\ UNCHANGED nonJobVars
(***************************************************************************)
(* Specifications                                                          *)
(***************************************************************************)

\* No enrichment run: nothing of the batch moves.
LlmAtRest ==
    /\ llmDisk = [n \in NameSet |-> Event("", <<>>, "none", "none", "none")]
    /\ llmArchive = llmDisk
    /\ llmPc = "idle"
    /\ llmForce = FALSE
    /\ llmPending = <<>>
    /\ llmNext = 1
    /\ llmWorkers = [w \in Workers |-> IdleWorker]
    /\ archiveLock = 0
    /\ llmResults = [n \in NameSet |-> "none"]
    /\ llmCollected = {}
    /\ llmChanged = FALSE
    /\ llmLog = [n \in NameSet |-> <<>>]
    /\ llmClsRaised = {}
    /\ llmNoPosts = {}
    /\ llmFinalSaves = 0
    /\ riskSnapshots = 0
    /\ llmRuns = 0
    /\ llmLoaded = llmDisk

\* No call of write_json in progress on the modelled path.
StoreAtRest ==
    /\ fsTarget = Missing
    /\ fsLeftover = 0
    /\ wjPc = "idle"
    /\ wjData = 0
    /\ wjPrev = Missing
    /\ wjAttempt = 0
    /\ wjLastError = FALSE
    /\ wjTmp = FALSE
    /\ wjSleeps = <<>>
    /\ wjRefused = 0
    /\ wjDirect = "none"
    /\ wjWrites = 0
    /\ rd = NoRead
    /\ InitWjFaultVars

\* No monitor tick: the monitor does not run.
MonAtRest ==
    /\ monNow = At(Today, 8, 1)
    /\ hourFiles = [p \in TrackedPairs |-> None]
    /\ dailyDisk = <<>>
    /\ hotlistLatest = NoLatest
    /\ monPc = "idle"
    /\ monMode = "none"
    /\ monPending = <<>>
    /\ monIdx = 0
    /\ monTopics = <<>>
    /\ monLocalUsed = FALSE
    /\ monCall = NoCall
    /\ monSkipped = <<>>
    /\ monForced = 0

\* No merge around midnight is followed.
CatchUpAtRest ==
    /\ cuNow = At(Yesterday, 22, 10)
    /\ cuFiles = {}
    /\ cuArchives = [d \in CuDates |-> <<>>]
    /\ cuLast = NoMerge

\* The policy is not called.
RateAtRest == InitRlVars /\ rlJitter = JITTER

\* The pool is not called.
PoolAtRest == InitCpVars /\ Len(cpEntries) = 0

\* No monitor tick works on the archive of the enrichment batch.
SharedAtRest == InitShVars

\* The worker setting has the value the model is built for.
SettingsAtDefault == llmWorkerSetting = LLM_ANALYSIS_WORKERS

\* No thread executes a job.
JobsAtRest == InitJobVars

\* The risk functions are not called.
RiskAtRest ==
    /\ rkDims = [k \in DimNames |-> None]
    /\ rkScore = None
    /\ rkLast = NoRkCall

InitStore ==
    /\ InitStoreVars
    /\ InitWjFaultVars
    /\ LlmAtRest /\ MonAtRest /\ CatchUpAtRest /\ RateAtRest /\ PoolAtRest
    /\ RiskAtRest /\ SharedAtRest /\ SettingsAtDefault /\ JobsAtRest

NextStore ==
    \/ WriteJsonCall
    \/ WriteJsonTmp
    \/ WriteJsonReplace
    \/ WriteJsonSleep
    \/ WriteJsonCleanup
    \/ WriteJsonDirectOpen
    \/ WriteJsonDirectWrite
    \/ WriteJsonDone
    \/ ReadJson

\* The atomic store: one writer of a path and its concurrent readers.
SpecStore == InitStore /\ [][NextStore]_vars

NextStoreFault ==
    \/ WriteJsonCall
    \/ WriteJsonTmp
    \/ WriteJsonReplace
    \/ WriteJsonSleep
    \/ WriteJsonCleanup
    \/ WriteJsonDirectOpen
    \/ WriteJsonDirectWrite
    \/ WriteJsonDone
    \/ ReadJson
    \/ WriteJsonTmpRaises
    \/ WriteJsonReplaceRaises
    \/ WriteJsonFinally
    \/ WriteJsonPropagates

\* The atomic store with documents that cannot be serialized and with operating
\* system errors other than PermissionError.
SpecStoreFault == InitStore /\ [][NextStoreFault]_vars

InitLLM ==
    /\ InitLlmVars
    /\ StoreAtRest /\ MonAtRest /\ CatchUpAtRest /\ RateAtRest /\ PoolAtRest
    /\ RiskAtRest /\ SharedAtRest /\ SettingsAtDefault /\ JobsAtRest

NextLLM ==
    \/ DailyLlmUpdate
    \/ \E w \in Workers : WorkerTake(w)
    \/ \E w \in Workers : WorkerMutate(w)
    \/ \E w \in Workers : WorkerSave(w)
    \/ \E w \in Workers : WorkerCall(w)
    \/ \E n \in NameSet : CollectResult(n)
    \/ PoolShutdown
    \/ Completion
    \/ DailyLlmUpdateReturn

\* The enrichment batch: runs of daily_llm_update with their worker pool.
SpecLLM == InitLLM /\ [][NextLLM]_vars

InitLLMDay == InitLLM /\ llmDisk \in InitDayArchives

NextLLMDay ==
    \/ DailyLlmUpdate
    \/ DailyLlmUpdateAgain
    \/ \E w \in Workers : WorkerTake(w)
    \/ \E w \in Workers : WorkerMutate(w)
    \/ \E w \in Workers : WorkerSave(w)
    \/ \E w \in Workers : WorkerCall(w)
    \/ \E n \in NameSet : CollectResult(n)
    \/ PoolShutdown
    \/ Completion
    \/ DailyLlmUpdateReturn

\* The runs of one day: a first run, then runs that are not forced.
SpecLLMDay == InitLLMDay /\ [][NextLLMDay]_vars

InitLLMFault == InitLLM /\ llmDisk \in InitDayArchives

NextLLMFault ==
    \/ DailyLlmUpdate
    \/ \E w \in Workers : WorkerTake(w)
    \/ \E w \in Workers : WorkerMutate(w)
    \/ \E w \in Workers : WorkerMutateRaises(w)
    \/ \E w \in Workers : WorkerSave(w)
    \/ \E w \in Workers : WorkerSaveRaises(w)
    \/ \E w \in Workers : WorkerCall(w)
    \/ \E n \in NameSet : CollectResult(n)
    \/ PoolShutdown
    \/ Completion
    \/ DailyLlmUpdateReturn

\* A run of the enrichment batch whose workers can fail in the persistence step.
SpecLLMFault == InitLLMFault /\ [][NextLLMFault]_vars

InitLLMRestart == InitLLM /\ llmDisk \in InitDayArchives

NextLLMRestart ==
    \/ DailyLlmUpdate
    \/ \E w \in Workers : WorkerTake(w)
    \/ \E w \in Workers : WorkerMutate(w)
    \/ \E w \in Workers : WorkerSave(w)
    \/ \E w \in Workers : WorkerCall(w)
    \/ \E n \in NameSet : CollectResult(n)
    \/ PoolShutdown
    \/ Completion
    \/ DailyLlmUpdateReturn
    \/ Interrupt

\* Runs of the enrichment batch that the end of the process interrupts, and the
\* run after them.
SpecLLMRestart == InitLLMRestart /\ [][NextLLMRestart]_vars

InitLLMPool ==
    /\ InitLlmVars
    /\ llmDisk \in InitDayArchives
    /\ llmWorkerSetting \in 1..LLM_ANALYSIS_WORKERS
    /\ JobsAtRest
    /\ StoreAtRest /\ MonAtRest /\ CatchUpAtRest /\ RateAtRest /\ PoolAtRest
    /\ RiskAtRest /\ SharedAtRest

NextLLMPool ==
    \/ DailyLlmUpdate
    \/ \E w \in Workers : WorkerTake(w)
    \/ \E w \in Workers : WorkerMutate(w)
    \/ \E w \in Workers : WorkerSave(w)
    \/ \E w \in Workers : WorkerCall(w)
    \/ \E n \in NameSet : CollectResult(n)
    \/ PoolShutdown
    \/ Completion
    \/ DailyLlmUpdateReturn

\* A run of the enrichment batch under every worker setting up to the default.
SpecLLMPool == InitLLMPool /\ [][NextLLMPool]_vars

InitMon ==
    /\ InitMonVars
    /\ StoreAtRest /\ LlmAtRest /\ CatchUpAtRest /\ RateAtRest /\ PoolAtRest
    /\ RiskAtRest /\ SharedAtRest /\ SettingsAtDefault /\ JobsAtRest

NextMon ==
    \/ MonitorTick
    \/ ProcessLatestHour
    \/ FetchHourTopics
    \/ MaybeFetchLocal
    \/ UpdateHourlyArchive
    \/ UpdateDailyArchive
    \/ RefreshAndCollectPosts
    \/ SyncHotlistSnapshot
    \/ Advance

\* The hourly monitor: ticks, loop iterations and forced fetches of one day.
SpecMon == InitMon /\ [][NextMon]_vars

\* The interval job of start_scheduler keeps firing _monitor_tick, a call that
\* has started runs on to its return or its exception, and time passes.
MonFairness ==
    /\ WF_vars(MonitorTick)
    /\ WF_vars(FetchHourTopics)
    /\ WF_vars(MaybeFetchLocal)
    /\ WF_vars(UpdateHourlyArchive)
    /\ WF_vars(UpdateDailyArchive)
    /\ WF_vars(RefreshAndCollectPosts)
    /\ WF_vars(SyncHotlistSnapshot)
    /\ WF_vars(Advance)

\* The hourly monitor under the scheduling of the running server.
SpecMonLive == InitMon /\ [][NextMon]_vars /\ MonFairness

InitCatchUp ==
    /\ InitCuVars
    /\ StoreAtRest /\ LlmAtRest /\ MonAtRest /\ RateAtRest /\ PoolAtRest
    /\ RiskAtRest /\ SharedAtRest /\ SettingsAtDefault /\ JobsAtRest

NextCatchUp ==
    \/ CuProcessHour
    \/ CuRefreshPosts
    \/ CuAdvance

\* The archive merges of the hours around midnight, caught up or forced.
SpecCatchUp == InitCatchUp /\ [][NextCatchUp]_vars

InitRate ==
    /\ InitRlVars
    /\ StoreAtRest /\ LlmAtRest /\ MonAtRest /\ CatchUpAtRest /\ PoolAtRest
    /\ RiskAtRest /\ SharedAtRest /\ SettingsAtDefault /\ JobsAtRest

NextRate ==
    \/ NextDelay
    \/ RecordFailure
    \/ RecordSuccess
    \/ InCooldown
    \/ RlAdvance

\* One rate-limit policy, its callers and the clock.
SpecRate == InitRate /\ [][NextRate]_vars

InitPool ==
    /\ InitCpVars
    /\ StoreAtRest /\ LlmAtRest /\ MonAtRest /\ CatchUpAtRest /\ RateAtRest
    /\ RiskAtRest /\ SharedAtRest /\ SettingsAtDefault /\ JobsAtRest

NextPool ==
    \/ Current
    \/ \E cookie \in Cookies : MarkBad(cookie)
    \/ CpAdvance

\* One credential pool, its callers and the clock.
SpecPool == InitPool /\ [][NextPool]_vars

InitRisk ==
    /\ InitRkVars
    /\ StoreAtRest /\ LlmAtRest /\ MonAtRest /\ CatchUpAtRest /\ RateAtRest
    /\ PoolAtRest /\ SharedAtRest /\ SettingsAtDefault /\ JobsAtRest

NextRisk ==
    \/ CallAggregateScore
    \/ CallRiskLevelFromScore
    \/ CallRiskTierSegments
    \/ PersistRisk

\* The functions of the risk model, applied to bounded inputs.
SpecRisk == InitRisk /\ [][NextRisk]_vars

InitShared ==
    /\ InitLlmVars
    /\ llmDisk \in InitDayArchives
    /\ InitShVars
    /\ StoreAtRest /\ MonAtRest /\ CatchUpAtRest /\ RateAtRest /\ PoolAtRest
    /\ RiskAtRest /\ SettingsAtDefault /\ JobsAtRest

NextShared ==
    \/ DailyLlmUpdate
    \/ \E w \in Workers : WorkerTake(w)
    \/ \E w \in Workers : WorkerMutate(w)
    \/ \E w \in Workers : WorkerSave(w)
    \/ \E w \in Workers : WorkerCall(w)
    \/ \E n \in NameSet : CollectResult(n)
    \/ PoolShutdown
    \/ Completion
    \/ TickLoadDaily
    \/ TickSaveDaily
    \/ TickLoadForPosts
    \/ TickSavePosts

\* One run of the enrichment batch and one monitor tick on the same day
\* archive, in any interleaving.
SpecShared == InitShared /\ [][NextShared]_vars

InitJobs ==
    /\ InitJobVars
    /\ StoreAtRest /\ LlmAtRest /\ MonAtRest /\ CatchUpAtRest /\ RateAtRest
    /\ PoolAtRest /\ RiskAtRest /\ SharedAtRest /\ SettingsAtDefault

NextJobs ==
    \/ \E t \in SchedulerThreads : SchedulerFires(t)
    \/ \E t \in RequestThreads : RunDailyLlm(t)
    \/ MonitorLoopCalls
    \/ \E t \in Threads : JobLoads(t)
    \/ \E t \in Threads : JobReturns(t)

\* The executions of the two jobs in the server process.
SpecJobs == InitJobs /\ [][NextJobs]_vars

(***************************************************************************)
(* Claims about the executions of the jobs (SpecJobs)                      *)
(***************************************************************************)

\* C34 (as stated): no two executions of the same job are in progress at the
\* same time: two threads that both execute something execute different jobs.
C34_NoSelfOverlap ==
    \A t, u \in Threads :
        (t # u /\ jobExec[t].pc # "idle" /\ jobExec[u].pc # "idle")
            => JobOf(t) # JobOf(u)

(***************************************************************************)
(* Claims about the enrichment batch (SpecLLM)                             *)
(***************************************************************************)

\* C1 (as stated): during a run, every terminal state (succeeded, skipped,
\* error) written for a topic comes after processing was written for that
\* topic in the same run.
C1_TerminalOnlyAfterProcessing ==
    \A n \in NameSet : \A i \in 1..Len(llmLog[n]) :
        llmLog[n][i] \in TerminalStates =>
            \E j \in 1..(i - 1) : llmLog[n][j] = "processing"

\* C1 (amended): the states written for a topic in one run are either skipped
\* alone (no sample posts: processing is never written), or processing followed
\* by at most one of succeeded and error; only dispatched topics are written, and
\* the state held by the archive is the last one written.
C1_StatusPathOfARun ==
    \A n \in NameSet :
        /\ llmLog[n] \in { <<>>, <<"skipped">>, <<"processing">>,
                           <<"processing", "succeeded">>,
                           <<"processing", "error">> }
        /\ llmLog[n] # <<>> =>
              /\ n \in Dispatched
              /\ llmArchive[n].state = llmLog[n][Len(llmLog[n])]

\* a run in which one topic was skipped without processing, and another went
\* through processing to succeeded
C1_Witness ==
    /\ llmPc = "returned"
    /\ \E n \in Dispatched : llmLog[n] = <<"skipped">>
    /\ \E n \in Dispatched : llmLog[n] = <<"processing", "succeeded">>

\* C2: when daily_llm_update has returned, every dispatched topic whose
\* classifier call raised has state error (in memory and on disk), and every
\* other dispatched topic has a terminal state written in this run; a raising
\* classifier never keeps the run from returning with every future handled.
C2_ClassifierErrorIsIsolated ==
    /\ llmClsRaised \subseteq Dispatched
    /\ llmPc = "returned" =>
          /\ llmCollected = Dispatched
          /\ \A n \in llmClsRaised :
                /\ llmArchive[n].state = "error"
                /\ llmDisk[n].state = "error"
                /\ llmResults[n] = "error"
          /\ \A n \in Dispatched \ llmClsRaised :
                /\ llmLog[n] # <<>>
                /\ llmArchive[n].state \in TerminalStates
                /\ llmDisk[n].state = llmArchive[n].state
                /\ llmResults[n] \in {"refreshed", "no_posts"}

\* a returned run with two dispatched topics: the classifier raised for one, the
\* other succeeded
C2_Witness ==
    /\ llmPc = "returned"
    /\ Len(llmPending) = 2
    /\ \E n \in llmClsRaised : llmDisk[n].state = "error"
    /\ \E n \in Dispatched \ llmClsRaised : llmDisk[n].state = "succeeded"

\* The canonical name and the current heat of a key, and the position of the key
\* in the archive, as the current run loaded them.
LoadedCanonical(n) == CanonicalTopicName(n, llmLoaded[n])
LoadedHeat(n) == ExtractHotScore(llmLoaded[n])
NameIndex(n) == CHOOSE i \in 1..Len(Names) : Names[i] = n

\* The topics a run has to consider: all of them when forced, else those whose
\* last_content_update_date is not today's date.
ExpectedCandidates ==
    IF llmForce THEN NameSet
    ELSE {n \in NameSet : llmLoaded[n].last_content_update_date # "today"}

DispatchedCanonicals == {LoadedCanonical(d) : d \in Dispatched}

\* C13: a run dispatches min(K, number of distinct canonical names among the
\* candidates) topics, no topic twice; every candidate whose canonical name is
\* not dispatched has at most the heat of every dispatched topic; and a topic
\* that is not dispatched keeps the llm_status and last_content_update_date it
\* was loaded with, in memory and on disk.
C13_TopKDispatchedOthersUntouched ==
    llmPc # "idle" =>
        /\ Len(llmPending) <= LLM_ANALYSIS_TOP_K
        /\ Cardinality(Dispatched) = Len(llmPending)
        /\ Len(llmPending) =
              Min(LLM_ANALYSIS_TOP_K,
                  Cardinality({LoadedCanonical(n) : n \in ExpectedCandidates}))
        /\ \A n \in ExpectedCandidates :
              LoadedCanonical(n) \notin DispatchedCanonicals =>
                  \A d \in Dispatched : LoadedHeat(n) <= LoadedHeat(d)
        /\ \A n \in NameSet \ Dispatched :
              /\ llmArchive[n].state = llmLoaded[n].state
              /\ llmDisk[n].state = llmLoaded[n].state
              /\ llmArchive[n].last_content_update_date =
                    llmLoaded[n].last_content_update_date
              /\ llmDisk[n].last_content_update_date =
                    llmLoaded[n].last_content_update_date

\* a returned run that had more candidates than K: a candidate of lower heat was
\* left out, and a dispatched topic of higher heat, second in the archive, got a
\* new status
C13_Witness ==
    /\ llmPc = "returned"
    /\ Len(llmPending) = LLM_ANALYSIS_TOP_K
    /\ \E n \in ExpectedCandidates \ Dispatched :
          /\ LoadedCanonical(n) \notin DispatchedCanonicals
          /\ \E d \in Dispatched :
                /\ LoadedHeat(n) < LoadedHeat(d)
                /\ NameIndex(n) < NameIndex(d)
                /\ llmDisk[d].state # llmLoaded[d].state

\* C14 (as stated): of the archive keys that share a canonical name at most one
\* is dispatched, and no key of that name has a higher heat than the dispatched
\* one.
C14_HottestKeyOfTheArchiveWins ==
    llmPc # "idle" =>
        \A d \in Dispatched : \A m \in NameSet \ {d} :
            LoadedCanonical(m) = LoadedCanonical(d) =>
                /\ m \notin Dispatched
                /\ LoadedHeat(m) <= LoadedHeat(d)

\* C14 (amended): of the candidate keys that share a canonical name at most one
\* is dispatched; no candidate key of that name has a higher heat, and of the
\* candidate keys with that heat it is the first in the archive. Keys that are
\* not candidates (refreshed today, run not forced) take no part.
C14_HottestCandidateKeyWins ==
    llmPc # "idle" =>
        \A d \in Dispatched : \A m \in NameSet \ {d} :
            LoadedCanonical(m) = LoadedCanonical(d) =>
                /\ m \notin Dispatched
                /\ m \in ExpectedCandidates =>
                      \/ LoadedHeat(m) < LoadedHeat(d)
                      \/ /\ LoadedHeat(m) = LoadedHeat(d)
                         /\ NameIndex(d) < NameIndex(m)

\* the later of two candidate keys with one canonical name has the higher heat
\* and is the one dispatched
C14_Witness ==
    /\ llmPc = "pool"
    /\ \E d \in Dispatched : \E m \in ExpectedCandidates \ Dispatched :
          /\ LoadedCanonical(m) = LoadedCanonical(d)
          /\ LoadedHeat(m) < LoadedHeat(d)
          /\ NameIndex(m) < NameIndex(d)

\* C15: every dispatched topic is a candidate (its last_content_update_date is
\* not today's date, or the run is forced), and every candidate is considered:
\* its canonical name is dispatched unless K topics already are.
C15_CandidateIffStaleOrForced ==
    llmPc # "idle" =>
        /\ Dispatched \subseteq ExpectedCandidates
        /\ \A n \in ExpectedCandidates :
              \/ LoadedCanonical(n) \in DispatchedCanonicals
              \/ Len(llmPending) = LLM_ANALYSIS_TOP_K

\* a run that is not forced leaves a topic refreshed today out although fewer
\* than K topics are dispatched
C15_Witness ==
    /\ llmPc = "pool"
    /\ ~llmForce
    /\ Len(llmPending) < LLM_ANALYSIS_TOP_K
    /\ \E n \in NameSet \ Dispatched :
          /\ llmLoaded[n].last_content_update_date = "today"
          /\ LoadedCanonical(n) \notin DispatchedCanonicals

\* C16 (as stated): in a forced run the first state written for a dispatched
\* topic is processing, whatever state the topic had before.
C16_ForcedRestartsAtProcessing ==
    llmForce =>
        \A n \in NameSet : llmLog[n] # <<>> => llmLog[n][1] = "processing"

\* C16 (amended): in a forced run every dispatched topic is written again,
\* whatever state it had before: a topic with sample posts is restarted at
\* processing before any other state is written for it, and a topic without
\* sample posts is written skipped and nothing else.
C16_ForcedRestartsUnlessNoPosts ==
    llmForce =>
        \A n \in Dispatched :
            /\ llmPc = "returned" => llmLog[n] # <<>>
            /\ llmLog[n] # <<>> =>
                  IF n \in llmNoPosts THEN llmLog[n] = <<"skipped">>
                  ELSE llmLog[n][1] = "processing"

\* a returned forced run that dispatched two topics which had succeeded before:
\* one was restarted at processing, the other had no posts and went to skipped
C16_Witness ==
    /\ llmForce
    /\ llmPc = "returned"
    /\ \E n \in Dispatched :
          /\ llmLoaded[n].state = "succeeded"
          /\ llmLog[n] = <<"processing", "succeeded">>
    /\ \E n \in Dispatched :
          /\ llmLoaded[n].state = "succeeded"
          /\ llmLog[n] = <<"skipped">>
          /\ llmDisk[n].state = "skipped"

C18_SkippedNotRetriedSameDay ==
    (llmPc # "idle" /\ ~llmForce /\ llmRuns >= 1) =>
        \A n \in Dispatched : llmLoaded[n].state # "skipped"

\* The workers inside the locked step of _mutate_event (the event is mutated,
\* the save is still to come).
InLockedStep == {w \in Workers : llmWorkers[w].pc = "save"}

\* C29: while the pool runs, the in-memory archive is changed only by a step
\* that leaves its worker holding ARCHIVE_LOCK inside the locked step, and the
\* archive on disk only by the holder of the lock inside that step; at most one
\* worker is inside the step, and it is the holder; a worker that is idle,
\* waiting for the lock or calling the classifier does not hold the lock, and
\* the steps in which a worker loads the posts or gets the answer of the
\* classifier are taken without the lock.
C29_MutationsUnderArchiveLock ==
    /\ [](/\ Cardinality(InLockedStep) <= 1
          /\ \A w \in Workers : (archiveLock = w) <=> (w \in InLockedStep)
          /\ archiveLock \in {0} \cup Workers)
    /\ [][llmPc = "pool" =>
            /\ llmArchive' # llmArchive =>
                  /\ archiveLock = 0
                  /\ archiveLock' \in Workers
                  /\ llmWorkers[archiveLock'].pc = "lock"
                  /\ llmWorkers'[archiveLock'].pc = "save"
            /\ llmDisk' # llmDisk =>
                  /\ archiveLock \in Workers
                  /\ llmWorkers[archiveLock].pc = "save"
                  /\ archiveLock' = 0
            /\ \A w \in Workers :
                  (llmWorkers[w].pc \in {"idle", "call"}
                      /\ llmWorkers'[w] # llmWorkers[w]) =>
                      (archiveLock # w /\ archiveLock' = archiveLock)]_vars

\* one worker is inside the locked step with its change not yet on disk, while
\* the other one waits for the lock with a result of the classifier
C29_Witness ==
    \E w \in Workers : \E v \in Workers \ {w} :
        /\ archiveLock = w
        /\ llmWorkers[w].pc = "save"
        /\ llmArchive # llmDisk
        /\ llmWorkers[v].pc = "lock"
        /\ llmWorkers[v].stage = "succeeded"

\* C32 (as stated): when daily_llm_update returns, no topic dispatched in the
\* run has the status processing, in memory or on disk, whatever exception its
\* worker met.
C32_NoProcessingAtReturn ==
    llmPc = "returned" =>
        \A n \in Dispatched :
            /\ llmDisk[n].state # "processing"
            /\ llmArchive[n].state # "processing"

\* The topics a pool thread has taken, and those of them whose call has not
\* returned yet.
C33_Taken == {llmPending[i] : i \in 1..(llmNext - 1)}
C33_InFlight == {n \in C33_Taken : llmResults[n] = "none"}
C33_WorkersOn(n) ==
    {w \in Workers : llmWorkers[w].pc # "idle" /\ llmWorkers[w].name = n}

\* C33: at every moment of a run at most llmWorkerSetting topics are being
\* processed; a topic being processed is with exactly one worker and no other
\* topic is with any; a worker starts on a topic only by taking the next
\* selected topic that has not been taken, so no topic is taken twice; and when
\* the pool has shut down every selected topic has been taken and has its one
\* result, the topics not selected none.
C33_BoundedPoolEachTopicOnce ==
    /\ [](/\ Cardinality(C33_InFlight) <= llmWorkerSetting
          /\ \A n \in NameSet :
                Cardinality(C33_WorkersOn(n)) = IF n \in C33_InFlight THEN 1 ELSE 0
          /\ \A i, j \in 1..Len(llmPending) :
                llmPending[i] = llmPending[j] => i = j
          /\ llmPc \in {"completion", "returned"} =>
                /\ C33_Taken = Dispatched
                /\ C33_InFlight = {}
                /\ \A n \in NameSet : llmResults[n] # "none" <=> n \in Dispatched)
    /\ [][\A w \in Workers :
             (llmWorkers'[w].pc # "idle" /\
              (llmWorkers[w].pc = "idle" \/ llmWorkers'[w].name # llmWorkers[w].name))
             => /\ llmPc = "pool"
                /\ llmNext <= Len(llmPending)
                /\ llmWorkers'[w].name = llmPending[llmNext]
                /\ llmNext' = llmNext + 1
                /\ llmResults[llmPending[llmNext]] = "none"]_vars
    /\ [][\A n \in NameSet :
             llmResults[n] # "none" =>
                llmPc' = "idle" \/ llmResults'[n] = llmResults[n]]_vars

\* Two topics are selected under a worker setting of one; the first has its
\* result and the second is being processed.
C33_Witness ==
    /\ llmWorkerSetting = 1
    /\ Len(llmPending) = 2
    /\ llmResults[llmPending[1]] # "none"
    /\ C33_InFlight = {llmPending[2]}
    /\ llmWorkers[1].name = llmPending[2]

\* C35 (as stated): a topic that an interrupted run left in processing is in a
\* terminal state, on disk, when the next run of the date has returned.
C35_StaleProcessingOverwritten ==
    llmPc = "returned" =>
        \A n \in NameSet :
            llmLoaded[n].state = "processing" => llmDisk[n].state \in TerminalStates

\* The last status the run wrote for a topic ("none" when it wrote none).
C36_LastWritten(n) ==
    IF llmLog[n] = <<>> THEN "none" ELSE llmLog[n][Len(llmLog[n])]

\* C36: a write of the status skipped, error or processing changes the status of
\* its topic and nothing else in the archive in memory, neither in the record of
\* that topic nor in any other record; and when the run has returned, the record
\* on disk of a topic whose worker ended in skipped or error is the record the
\* run loaded with that status in it: classification and risk fields, refresh
\* date, title and heat series are as they were.
C36_FailedWorkerWritesStatusOnly ==
    /\ [][\A n \in NameSet :
             (llmPc = "pool" /\ llmArchive'[n] # llmArchive[n] /\
              llmArchive'[n].state \in {"skipped", "error", "processing"})
             => /\ llmArchive'[n] =
                      [llmArchive[n] EXCEPT !.state = llmArchive'[n].state]
                /\ \A m \in NameSet \ {n} : llmArchive'[m] = llmArchive[m]]_vars
    /\ [](llmPc = "returned" =>
             \A n \in NameSet :
                C36_LastWritten(n) \in {"skipped", "error"} =>
                   llmDisk[n] = [llmLoaded[n] EXCEPT !.state = C36_LastWritten(n)])

\* A forced run has returned; a topic that had succeeded before went to error
\* and still carries the results and the refresh date of the earlier run, and
\* another topic of the run succeeded.
C36_Witness ==
    /\ llmPc = "returned"
    /\ \E n \in Dispatched :
          /\ llmLoaded[n].state = "succeeded"
          /\ llmLog[n] = <<"processing", "error">>
          /\ llmDisk[n].state = "error"
          /\ llmDisk[n].result = "prior"
          /\ llmDisk[n].last_content_update_date = "today"
    /\ \E n \in Dispatched : llmLog[n] = <<"processing", "succeeded">>

(***************************************************************************)
(* Claims about the hourly monitor (SpecMon)                               *)
(***************************************************************************)

\* C5: the local crawler is called for a pair only at or after the top of its
\* hour, and then only if the threshold has elapsed since the top of the hour or
\* the date or hour of the clock is past the pair's; should_trigger_local never
\* says yes for an hour that has not started.
C5_FallbackOnlyWhenWarranted ==
    /\ monCall.fallback_called =>
          LET date == monCall.pair[1]
              hour == monCall.pair[2]
              t == monCall.checked_at
          IN  /\ t >= At(date, hour, 0)
              /\ \/ t - At(date, hour, 0) >= LOCAL_FALLBACK_THRESHOLD_MINUTES
                 \/ DateOf(t) > date
                 \/ DateOf(t) = date /\ HourOf(t) > hour
    /\ \A date \in {Today - 1, Today, Today + 1} : \A hour \in 0..23 :
          ShouldTriggerLocal(date, hour, monNow) =>
              /\ monNow >= At(date, hour, 0)
              /\ \/ monNow - At(date, hour, 0) >= LOCAL_FALLBACK_THRESHOLD_MINUTES
                 \/ DateOf(monNow) > date
                 \/ DateOf(monNow) = date /\ HourOf(monNow) > hour

\* the local crawler was called for hour 08 exactly when the threshold was
\* reached, and its topics were used
C5_Witness ==
    /\ monCall.fallback_called
    /\ monCall.pair = <<Today, 8>>
    /\ monCall.checked_at = At(Today, 8, LOCAL_FALLBACK_THRESHOLD_MINUTES)
    /\ monCall.local_used

\* C6: when the primary fetch of a pair gave nothing and the fallback was not
\* warranted at the time of the check, the fetch returned no topics and
\* usedFallback = false, the call wrote neither the hourly snapshot nor the
\* daily archive, and a pair that was pending is still collected as pending.
C6_DeferredLeavesNoTrace ==
    LET date == monCall.pair[1]
        hour == monCall.pair[2]
        t == monCall.checked_at
        warranted ==
            /\ t >= At(date, hour, 0)
            /\ \/ t - At(date, hour, 0) >= LOCAL_FALLBACK_THRESHOLD_MINUTES
               \/ DateOf(t) > date
               \/ DateOf(t) = date /\ HourOf(t) > hour
        pending == CollectPendingHours(hourFiles, monNow)
    IN  (monCall.outcome # "none" /\ ~monCall.primary_ok /\ t # 0 /\ ~warranted) =>
            /\ monCall.outcome = "deferred"
            /\ ~monCall.got_topics
            /\ ~monCall.local_used
            /\ ~monCall.fallback_called
            /\ ~monCall.wrote_hourly
            /\ ~monCall.wrote_daily
            /\ monCall.was_pending =>
                  \E i \in 1..Len(pending) : pending[i] = monCall.pair

\* hour 09 was deferred one minute after it began, in a tick that had processed
\* hour 08 before it; the tick is over and hour 09 is still without snapshot
C6_Witness ==
    /\ monPc = "idle"
    /\ monCall.outcome = "deferred"
    /\ monCall.pair = <<Today, 9>>
    /\ monCall.checked_at = At(Today, 9, 1)
    /\ monCall.was_pending
    /\ hourFiles[<<Today, 8>>] # None
    /\ hourFiles[<<Today, 9>>] = None

\* C7 (as stated): once process_hour is over for a pair whose primary fetch
\* failed and whose fallback returned topics with distinct non-empty titles,
\* usedFallback was true, the hourly snapshot is persisted and the daily archive
\* has a record for each title, with the two-digit hour in appeared_hours.
C7_FallbackTopicsReachArchive ==
    (/\ monCall.outcome \in {"done", "raised"}
     /\ ~monCall.primary_ok
     /\ monCall.fallback_called
     /\ monCall.got_topics
     /\ hourFiles[monCall.pair] # None
     /\ LET topics == hourFiles[monCall.pair][1]
        IN  /\ \A i \in 1..Len(topics) : Strip(topics[i].title) # <<>>
            /\ \A i, j \in 1..Len(topics) :
                  i # j => Strip(topics[i].title) # Strip(topics[j].title))
    => /\ monCall.local_used
       /\ LET topics == hourFiles[monCall.pair][1]
          IN  \A i \in 1..Len(topics) :
                 /\ Strip(topics[i].title) \in DOMAIN dailyDisk
                 /\ \E n \in 1..Len(dailyDisk[Strip(topics[i].title)].appeared_hours) :
                       dailyDisk[Strip(topics[i].title)].appeared_hours[n] =
                           HourStr(monCall.pair[2])

\* C8 (as stated): no pending pair of a tick is left unprocessed because the
\* processing of an earlier pair of that tick failed.
C8_FailureDoesNotBlockOtherPairs == monSkipped = <<>>

\* C9: merging any snapshot for any (date, hour) into the archive twice gives
\* the archive that merging it once gives, entry by entry and as a whole.
C9_UpsertTwiceIsUpsertOnce ==
    \A pair \in TrackedPairs :
        /\ \A topics \in SnapshotChoices : \A i \in 1..Len(topics) :
              LET once == UpsertTopic(dailyDisk, topics[i], pair[1], pair[2])
              IN  UpsertTopic(once, topics[i], pair[1], pair[2]) = once
        /\ \A topics \in SnapshotChoices :
              LET quiet == [i \in 1..Len(topics) |-> "none"]
                  once == MergeTopics(dailyDisk, topics, pair[1], pair[2], quiet, 1).map
              IN  MergeTopics(once, topics, pair[1], pair[2], quiet, 1).map = once

\* a forced fetch merged hour 09 into an archive that had it already: the record
\* of "a" lists 09 once, after 08, and its posts are refreshed
C9_Witness ==
    /\ monCall.outcome = "done"
    /\ monCall.pair = <<Today, 9>>
    /\ ~monCall.was_pending
    /\ monCall.wrote_daily
    /\ <<"a">> \in DOMAIN dailyDisk
    /\ dailyDisk[<<"a">>].appeared_hours = <<"08", "09">>
    /\ ~dailyDisk[<<"a">>].needs_refresh

\* C10 (as stated): every record of the daily archive has first_seen <= last_seen.
C10_FirstSeenNotAfterLastSeen ==
    \A title \in DOMAIN dailyDisk :
        SeenLeq(dailyDisk[title].first_seen, dailyDisk[title].last_seen)

\* C11 (as stated): a persisted hourly snapshot is never fetched again and never
\* overwritten: no step changes the content of an hour file that exists.
C11_SnapshotWriteOnce ==
    [][\A pair \in TrackedPairs :
          hourFiles[pair] # None => hourFiles'[pair] = hourFiles[pair]]_vars

\* The titles of the latest merge that had a record before it.
C12_MergedExisting == MergedTitles(cuLast.topics) \cap DOMAIN cuLast.before

\* C12 (as stated): when upsert_topic merges a snapshot entry into an existing
\* record whose last content refresh was not made today, the record has
\* needs_refresh = true afterwards.
C12_FlaggedUnlessRefreshedToday ==
    \A title \in C12_MergedExisting :
        cuLast.before[title].last_post_refresh # Some(cuLast.today)
            => cuLast.after[title].needs_refresh = TRUE

\* C12 (amended): when upsert_topic merges a snapshot entry into an existing
\* record, needs_refresh becomes true if the record's last_post_refresh is not
\* the date of the merged snapshot, and is left as it was otherwise.
C12_FlaggedUnlessRefreshedForSnapshotDate ==
    \A title \in C12_MergedExisting :
        cuLast.after[title].needs_refresh =
            IF cuLast.before[title].last_post_refresh # Some(cuLast.date)
            THEN TRUE
            ELSE cuLast.before[title].needs_refresh

\* An hour of the day before is caught up after midnight and merges into a
\* record whose posts were refreshed the day before.
C12_Witness ==
    /\ cuLast.today = Today
    /\ cuLast.date = Yesterday
    /\ \E title \in C12_MergedExisting :
          /\ cuLast.before[title].last_post_refresh = Some(Yesterday)
          /\ ~cuLast.before[title].needs_refresh
          /\ ~cuLast.after[title].needs_refresh

\* C26 (as stated): when the primary fetch of process_hour has ended without
\* topics (HTTP error, other request failure or empty payload), the failure has
\* been recorded by the rate-limit policy of the fetch scope.
C26_FetchFailureFeedsPolicy ==
    (monCall.outcome # "none" /\ ~monCall.primary_ok) =>
        /\ rlLastFailureTs # None
        /\ rlFailures > 0

\* C31 (as stated): whenever no process_hour call is in progress, every hourly
\* snapshot file that exists has been merged: the daily archive of its date has
\* a record for every titled topic of the snapshot, with the hour of the
\* snapshot in appeared_hours.
C31_SnapshotImpliesMerged ==
    monPc = "idle" =>
        \A p \in TrackedPairs :
            hourFiles[p] # None =>
                LET topics == hourFiles[p][1]
                IN  \A i \in 1..Len(topics) :
                       Strip(topics[i].title) # <<>> =>
                          /\ Strip(topics[i].title) \in DOMAIN dailyDisk
                          /\ \E n \in 1..Len(dailyDisk[Strip(topics[i].title)].appeared_hours) :
                                dailyDisk[Strip(topics[i].title)].appeared_hours[n] =
                                    HourStr(p[2])

\* A source has returned a non-empty list for the pair, inside the look-back
\* window (every tracked pair is inside it at every instant of the model).
C39_Returned(p) ==
    /\ monPc = "hourly"
    /\ Cur = p
    /\ monTopics # <<>>
    /\ DateOf(monNow) - p[1] <= MAX_LOOKBACK_DAYS

\* The pair has its hourly snapshot, and every titled topic of the snapshot has
\* a record in the day archive with the hour in appeared_hours.
C39_PersistedAndMerged(p) ==
    /\ hourFiles[p] # None
    /\ LET topics == hourFiles[p][1]
       IN  \A i \in 1..Len(topics) :
              Strip(topics[i].title) # <<>> =>
                 /\ Strip(topics[i].title) \in DOMAIN dailyDisk
                 /\ \E n \in 1..Len(dailyDisk[Strip(topics[i].title)].appeared_hours) :
                       dailyDisk[Strip(topics[i].title)].appeared_hours[n] = HourStr(p[2])

\* C39 (as stated): while the monitor ticks keep firing, every pair of the
\* look-back window for which the primary source or the warranted fallback
\* returns a non-empty list is eventually persisted as an hourly snapshot and
\* merged into the day archive.
C39_ReturnedLeadsToMerged ==
    \A p \in TrackedPairs : C39_Returned(p) ~> C39_PersistedAndMerged(p)

\* Why the pair of C39 is lost for good, whatever the number of later ticks:
\* once its hour is over and no call is in progress, a pair that has its hourly
\* snapshot and is not merged stays unmerged at every step of the monitor.
C39_UnmergedStaysUnmerged ==
    [][\A p \in TrackedPairs :
          (/\ monPc = "idle"
           /\ HourOf(monNow) > p[2]
           /\ hourFiles[p] # None
           /\ ~C39_PersistedAndMerged(p))
          => ~C39_PersistedAndMerged(p)']_vars

(***************************************************************************)
(* Claims about the credential pool (SpecPool)                             *)
(***************************************************************************)

\* The entry at a 0-based position of the pool the latest call found, whether
\* an entry was cooling when the call was made, and the positions from a start
\* position on in cyclic order.
FoundSize == Len(cpLast.found)
Cooling(entry) ==
    entry.last_bad > 0 /\ cpLast.at - entry.last_bad < COOKIE_COOLDOWN_SECONDS
\* the position reached from `start` is the first in cyclic order whose entry
\* in `entries` is not cooling
FirstNotCooling(entries, start, pos) ==
    \E k \in 0..(FoundSize - 1) :
        /\ pos = (start + k) % FoundSize
        /\ ~Cooling(entries[pos + 1])
        /\ \A j \in 0..(k - 1) : Cooling(entries[((start + j) % FoundSize) + 1])

\* C23: current() on a pool with entries returns the entry at the cursor and
\* leaves the cursor when that entry is not cooling; else, when some entry is
\* not cooling, it moves the cursor to the first such entry after the cursor in
\* cyclic order and returns that one; it never returns a cooling entry while
\* some entry is not cooling, and it changes no entry.
C23_CurrentSkipsCoolingEntries ==
    (cpLast.op = "current" /\ cpLast.found # <<>>) =>
        LET cur == cpLast.from[1]
        IN  /\ cpEntries = cpLast.found
            /\ cpIndex # None
            /\ cpLast.ret = cpEntries[cpIndex[1] + 1].value
            /\ ~Cooling(cpEntries[cur + 1]) => cpIndex = cpLast.from
            /\ (\E i \in 1..FoundSize : ~Cooling(cpEntries[i])) =>
                  /\ ~Cooling(cpEntries[cpIndex[1] + 1])
                  /\ FirstNotCooling(cpEntries, cur, cpIndex[1])

\* a pool of three: the entry at the cursor and the next one are cooling, and
\* current() moves the cursor two places on, around the end of the pool
C23_Witness ==
    /\ cpLast.op = "current"
    /\ FoundSize = 3
    /\ cpLast.from = Some(1)
    /\ Cooling(cpEntries[2])
    /\ Cooling(cpEntries[3])
    /\ cpIndex = Some(0)
    /\ cpLast.ret = PoolCookies[1]

\* The position mark_bad works on: the first entry with the given value, or
\* the entry at the cursor when no entry has it.
MarkedPosition ==
    LET hits == {i \in 1..FoundSize : cpLast.found[i].value = cpLast.arg[1]}
    IN  IF hits # {} THEN (CHOOSE i \in hits : \A j \in hits : i <= j) - 1
        ELSE IF cpLast.from = None THEN 0 ELSE cpLast.from[1]

\* C24: current() and mark_bad() always return a credential: the fallback
\* credential when the pool is empty, else the value of the entry the cursor is
\* left at; when every entry is cooling after the call, that entry is the one at
\* the start index of the search, wrapped around the end of the pool (the
\* position after the cursor for current(), after the marked entry for
\* mark_bad()); in a pool of one entry mark_bad returns that entry.
C24_AlwaysACredential ==
    cpLast.op \in {"current", "mark_bad"} =>
        /\ cpLast.ret \in Cookies
        /\ cpLast.found = <<>> =>
              (cpLast.ret = FALLBACK_COOKIE /\ cpEntries = <<>> /\ cpIndex = None)
        /\ cpLast.found # <<>> =>
              /\ cpIndex # None
              /\ cpLast.ret = cpEntries[cpIndex[1] + 1].value
              /\ cpLast.ret # FALLBACK_COOKIE
        /\ (cpLast.found # <<>> /\ \A i \in 1..FoundSize : Cooling(cpEntries[i])) =>
              cpIndex[1] =
                  IF cpLast.op = "current" THEN (cpLast.from[1] + 1) % FoundSize
                  ELSE (MarkedPosition + 1) % FoundSize
        /\ (cpLast.op = "mark_bad" /\ FoundSize = 1) =>
              cpLast.ret = cpLast.found[1].value

\* a pool of two in which every entry is cooling after mark_bad on the second
\* entry: the first entry is returned although it is cooling
C24_Witness ==
    /\ cpLast.op = "mark_bad"
    /\ FoundSize = 2
    /\ cpLast.arg = Some(PoolCookies[2])
    /\ \A i \in 1..2 : Cooling(cpEntries[i])
    /\ cpLast.ret = PoolCookies[1]
    /\ cpIndex = Some(0)

\* C25 (as stated): mark_bad(credential) on a pool with entries sets last_bad
\* of the entry whose value is the credential to the time of the call and
\* changes last_bad of no other entry.
C25_OnlyTheMatchingEntryIsMarked ==
    (cpLast.op = "mark_bad" /\ cpLast.found # <<>>) =>
        \A i \in 1..FoundSize :
            cpEntries[i].last_bad =
                IF cpLast.found[i].value = cpLast.arg[1]
                THEN cpLast.at ELSE cpLast.found[i].last_bad

\* C25 (amended): mark_bad(credential) on a pool with entries sets last_bad of
\* one entry to the time of the call, the entry whose value is the credential,
\* or the entry at the cursor when no entry has that value, and changes no
\* other entry; the cursor is left at the first entry after the marked one, in
\* cyclic order, that is not cooling (at the next entry when all are cooling),
\* and that entry is returned.
C25_MarksMatchOrCursorThenRotates ==
    (cpLast.op = "mark_bad" /\ cpLast.found # <<>>) =>
        /\ \A i \in 1..FoundSize :
              /\ cpEntries[i].value = cpLast.found[i].value
              /\ cpEntries[i].last_bad =
                    IF i = MarkedPosition + 1
                    THEN cpLast.at ELSE cpLast.found[i].last_bad
        /\ cpIndex # None
        /\ cpLast.ret = cpEntries[cpIndex[1] + 1].value
        /\ IF \A i \in 1..FoundSize : Cooling(cpEntries[i])
           THEN cpIndex[1] = (MarkedPosition + 1) % FoundSize
           ELSE FirstNotCooling(cpEntries, MarkedPosition + 1, cpIndex[1])

\* a pool of three with the cursor at the second entry, which was marked
\* earlier: mark_bad on the third entry marks it, leaves the other two as they
\* were, and returns the first
C25_Witness ==
    /\ cpLast.op = "mark_bad"
    /\ FoundSize = 3
    /\ cpLast.from = Some(1)
    /\ cpLast.arg = Some(PoolCookies[3])
    /\ cpLast.found[2].last_bad > 0
    /\ cpLast.found[2].last_bad < cpLast.at
    /\ cpEntries[2] = cpLast.found[2]
    /\ cpEntries[1] = cpLast.found[1]
    /\ cpEntries[3].last_bad = cpLast.at
    /\ cpIndex = Some(0)
    /\ cpLast.ret = PoolCookies[1]

(***************************************************************************)
(* Claims about the rate-limit policy (SpecRate)                           *)
(***************************************************************************)

\* C19 (as stated): right after the max_backoff_attempts-th record_failure() in
\* a row (counted from __init__ or from the last record_success), the policy is
\* in cooldown with level soft.
C19_SoftCooldownAfterMaxFailures ==
    (rlLast.op = "record_failure" /\ rlFailures = MAX_BACKOFF_ATTEMPTS) =>
        /\ CooldownActive
        /\ rlCooldownLevel = Some("soft")

\* C20 (as stated): a cooldown of level hard is entered only when more than
\* soft_threshold soft cooldowns lie inside the rolling window, and after an
\* escalation the soft-hit history is empty.
C20_HardOnlyAboveThreshold ==
    (rlLast.op = "record_failure" /\ rlLast.ret # None
        /\ rlLastCooldown.level = "hard") =>
        /\ rlLastCooldown.counted > SOFT_THRESHOLD
        /\ rlSoftHits = <<>>

\* C21: with the default soft_threshold, when a soft cooldown is triggered and
\* the cooldown entered before it was soft, the new cooldown is hard if the
\* earlier one lies inside the rolling window and soft if the window has passed
\* since.
C21_SecondSoftInWindowIsHard ==
    \A i \in 2..Len(rlHistory) :
        rlHistory[i - 1][1] = "soft" =>
            rlHistory[i][1] =
                IF rlHistory[i][2] - rlHistory[i - 1][2] <= COOLDOWN_WINDOW
                THEN "hard" ELSE "soft"

\* three cooldowns in a row: a soft one, a second one after the window has
\* passed, which is soft again, and a third one inside the window of the second,
\* which is hard
C21_Witness ==
    /\ Len(rlHistory) = 3
    /\ rlHistory[1][1] = "soft"
    /\ rlHistory[2][1] = "soft"
    /\ rlHistory[2][2] - rlHistory[1][2] > COOLDOWN_WINDOW
    /\ rlHistory[3][1] = "hard"
    /\ rlHistory[3][2] - rlHistory[2][2] <= COOLDOWN_WINDOW
    /\ rlHistory[3][2] > rlHistory[2][2]

\* C22: a call of next_delay() with the attempt counter at a returns a delay
\* between d * (1 - jitter) and d * (1 + jitter), where d is
\* base_delay * 2^min(a, max_backoff_attempts - 1), and leaves the counter at
\* a + 1; d is at most base_delay * 2^(max_backoff_attempts - 1).  Delays are
\* in milliseconds, the jitter in thousandths.
C22_DelayWithinJitterAndCounted ==
    [][rlLast'.op = "next_delay" =>
          LET a == rlAttempts
              e == IF a < MAX_BACKOFF_ATTEMPTS - 1 THEN a
                   ELSE MAX_BACKOFF_ATTEMPTS - 1
              d == BASE_DELAY * (2 ^ e)
          IN  /\ rlLast'.ret # None
              /\ rlLast'.ret[1] >= d * (1000 - rlJitter)
              /\ rlLast'.ret[1] <= d * (1000 + rlJitter)
              /\ rlAttempts' = a + 1
              /\ d <= BASE_DELAY * (2 ^ (MAX_BACKOFF_ATTEMPTS - 1))]_vars

\* the call after max_backoff_attempts calls: the exponent is capped, and the
\* delay is the largest the default jitter allows
C22_Witness ==
    /\ rlLast.op = "next_delay"
    /\ rlJitter = JITTER
    /\ rlAttempts = MAX_BACKOFF_ATTEMPTS + 1
    /\ rlLast.ret = Some(BASE_DELAY * (2 ^ (MAX_BACKOFF_ATTEMPTS - 1))
                            * (1000 + JITTER))

\* C38 (as stated): a record_failure() made while a cooldown is active does not
\* move cooldown_until to an earlier time and does not turn a hard cooldown into
\* a soft one.
C38_ActiveCooldownNotWeakened ==
    [][(CooldownActive /\ rlFailures' = rlFailures + 1) =>
          /\ rlCooldownUntil' # None
          /\ rlCooldownUntil'[1] >= rlCooldownUntil[1]
          /\ ~(rlCooldownLevel = Some("hard") /\ rlCooldownLevel' = Some("soft"))]_vars

(***************************************************************************)
(* Claims about the risk model (SpecRisk)                                  *)
(***************************************************************************)

\* The buckets of a segments result that are not zero.
NonZeroBuckets(seg) == {b \in {"low", "mid", "high"} : seg[b] # 0}

\* The tier of a score in hundredths: high from 50, mid from 20, else low.
TierOf(v) == IF v >= 5000 THEN "high" ELSE IF v >= 2000 THEN "mid" ELSE "low"

\* C27 (as stated): for every score, risk_tier_segments(score) has exactly one
\* bucket that is not zero, that bucket holds the score, and it is the bucket of
\* the tier of the score.
C27_ExactlyOneNonZeroBucket ==
    rkLast.op = "risk_tier_segments" =>
        LET seg == rkLast.ret[1]
            v == IF rkScore = None THEN 0 ELSE rkScore[1]
        IN  /\ Cardinality(NonZeroBuckets(seg)) = 1
            /\ seg[TierOf(v)] = v

\* C27 (amended): risk_tier_segments(score) puts the score, taken as 0 when it
\* is None and cut to the range 0..100, into the bucket of its tier and leaves
\* the other two buckets at zero; so exactly one bucket is not zero when the
\* score is above 0 and none when it is None or at most 0, and the bucket holds
\* the score itself when the score is between 0 and 100.
C27_TierBucketHoldsClampedScore ==
    rkLast.op = "risk_tier_segments" =>
        LET seg == rkLast.ret[1]
            v == IF rkScore = None THEN 0 ELSE rkScore[1]
            n == IF v < 0 THEN 0 ELSE IF v > 10000 THEN 10000 ELSE v
        IN  /\ seg[TierOf(n)] = n
            /\ \A b \in {"low", "mid", "high"} \ {TierOf(n)} : seg[b] = 0
            /\ NonZeroBuckets(seg) = IF n > 0 THEN {TierOf(n)} ELSE {}
            /\ (v >= 0 /\ v <= 10000) => seg[TierOf(v)] = v

\* the score 50.0, the lower end of the high tier, lies in the high bucket
C27_Witness ==
    /\ rkLast.op = "risk_tier_segments"
    /\ rkScore = Some(5000)
    /\ rkLast.ret[1] = [low |-> 0, mid |-> 0, high |-> 5000]

\* C28: aggregate_score returns a value between 0 and 100 for all dims, also
\* when dimensions are out of range or missing, and so does the risk_score
\* _persist_llm_success writes.
C28_AggregateWithinRange ==
    /\ rkLast.op = "aggregate_score" =>
          (rkLast.ret[1] >= 0 /\ rkLast.ret[1] <= 10000)
    /\ rkLast.op = "persist" =>
          (rkLast.ret[1].risk_score >= 0 /\ rkLast.ret[1].risk_score <= 10000)

\* dims with one dimension missing, one below and one above the range: the
\* aggregate is 0.35 * 0 + 0.25 * 0 + 0.20 * 100 + 0.20 * 40 = 28
C28_Witness ==
    /\ rkLast.op = "aggregate_score"
    /\ rkDims = [negativity |-> None, growth |-> Some(0 - 50),
                 sensitivity |-> Some(150), crowd |-> Some(40)]
    /\ rkLast.ret = Some(2800)

C30_NoUpdateLost ==
    (llmPc = "returned" /\ shPc = "done") =>
        /\ \A n \in TickTopics :
              /\ Len(llmDisk[n].hot_values) = 2
              /\ llmDisk[n].hot_values[2] = TickHot
        /\ \A n \in NameSet :
              llmLog[n] # <<>> =>
                  /\ llmDisk[n].state = llmLog[n][Len(llmLog[n])]
                  /\ (llmDisk[n].state = "succeeded" =>
                        /\ llmDisk[n].result = "run"
                        /\ llmDisk[n].last_content_update_date = "today")
(***************************************************************************)
(* Claims about the atomic store (checked under SpecStore)                 *)
(***************************************************************************)

\* C3 (as stated): every read of the target, under any interleaving with
\* write_json and any pattern of refused renames, sees either the complete
\* previous document or the complete new document.
C3_EveryReadSeesWholeDocument ==
    rd.during # "none" => rd.seen \in {rd.prev, Full(rd.data)}

\* C3 (amended): a read sees the complete previous or the complete new document,
\* except during the direct overwrite, which write_json reaches only after all 8
\* temp-file-plus-rename attempts were refused; a read made then may see the
\* truncated, partly written target.
C3_ReadsWholeUnlessDirectOverwrite ==
    /\ rd.during # "none" =>
          \/ rd.seen \in {rd.prev, Full(rd.data)}
          \/ rd.during = "direct" /\ rd.seen = Partial(rd.data)
    /\ fsTarget.kind = "partial" =>
          wjPc = "direct_write" /\ wjRefused = RenameAttempts

\* A read made during the rename loop of a call whose first attempts were refused
\* saw the previous document, and the call then replaced it by another one.
C3_Witness ==
    /\ rd.during = "rename"
    /\ rd.prev.kind = "full"
    /\ rd.seen = rd.prev
    /\ rd.data = wjData /\ rd.prev = wjPrev
    /\ wjRefused > 0
    /\ wjPc = "returned"
    /\ fsTarget = Full(wjData)
    /\ fsTarget # wjPrev

\* C4: write_json makes at most 8 temp-file-plus-rename attempts, sleeping
\* 0.2 s, 0.4 s, ... (doubling) after each refused one; it overwrites the target
\* directly only after all 8 were refused; it raises only if that overwrite is
\* refused too (the target then keeps its content) and returns normally, with the
\* new document in place, in every other case.
C4_RetryThenDirectThenRaise ==
    /\ wjAttempt <= RenameAttempts
    /\ wjRefused <= RenameAttempts
    /\ Len(wjSleeps) <= wjRefused
    /\ \A i \in 1..Len(wjSleeps) :
          wjSleeps[i] = IF i = 1 THEN SleepBase ELSE 2 * wjSleeps[i - 1]
    /\ (Phase(wjPc) = "direct" \/ wjDirect # "none") =>
          wjRefused = RenameAttempts /\ Len(wjSleeps) = RenameAttempts
    /\ wjPc = "raised" =>
          wjDirect = "refused" /\ wjLastError /\ fsTarget = wjPrev
    /\ wjPc = "returned" =>
          wjDirect # "refused" /\ fsTarget = Full(wjData)

\* All 8 attempts were refused, and so was the direct overwrite: the call raised.
C4_Witness ==
    /\ wjPc = "raised"
    /\ wjRefused = RenameAttempts
    /\ Len(wjSleeps) = RenameAttempts
    /\ wjSleeps[RenameAttempts] = 256


\* C40 (as stated): when an attempt of the temp-file-plus-rename phase fails
\* with an error other than a refused rename, the error propagates, the target
\* keeps its previous content, and the temp file of the attempt is removed.
C40_OtherErrorLeavesNoTempFile ==
    /\ wjError # "none" =>
          /\ wjPc \in {"finally", "propagated"}
          /\ fsTarget = wjPrev
    /\ wjPc = "propagated" => wjUnlinked \in {"removed", "no_file"}

\* C40 (amended): the error propagates at once (no sleep, no further attempt, no
\* direct overwrite) and the target keeps its previous content; the temp file of
\* the attempt is removed unless its removal is refused, which write_json
\* ignores: that file, and no other, is then left behind.
C40_OtherErrorPropagatesTargetKept ==
    /\ [](/\ wjError # "none" =>
                /\ wjPc \in {"finally", "propagated"}
                /\ fsTarget = wjPrev
                /\ wjDirect = "none"
          /\ wjPc = "propagated" =>
                /\ wjError # "none"
                /\ wjUnlinked \in {"removed", "no_file", "refused"}
                /\ ~wjTmp)
    /\ [][(wjPc = "finally" /\ wjPc' # wjPc) =>
             /\ wjPc' = "propagated"
             /\ fsTarget' = fsTarget
             /\ fsLeftover' = fsLeftover + (IF wjUnlinked' = "refused" THEN 1 ELSE 0)
             /\ (wjUnlinked' = "no_file") = ~wjTmp]_vars

\* A document that cannot be serialized, written over an existing one after a
\* refused rename: the call raised, the temp file is gone and the target is the
\* previous document.
C40_Witness ==
    /\ wjPc = "propagated"
    /\ wjError = "TypeError"
    /\ wjUnlinked = "removed"
    /\ wjRefused > 0
    /\ wjPrev.kind = "full"
    /\ fsTarget = wjPrev
====
